---------------------------- MODULE Spec2Model ----------------------------
(***************************************************************************)
(* A-SWARM core pipeline: the v3 fast-path receiver (FastPathListener),    *)
(* the pheromone aggregator (DualPathWatcher) and the micro-act catalog    *)
(* (MicroActCatalog).  Each component has its own specification: SpecRx,   *)
(* SpecAgg, SpecCat.                                                       *)
(***************************************************************************)
EXTENDS Integers, Sequences, FiniteSets, Bags, TLC

VARIABLES
    \* ---- FastPathListener (udp_listener_v4.py)
    ring_buffer,      \* RingBuffer.buffer: queue of RingBufferEntry
    dropped_count,    \* RingBuffer.dropped_count
    stats,            \* Stats.counters
    hmac_keys,        \* key_id -> key
    src_sequences,    \* src_id -> (highest_seq, seen_seqs)
    replay_cache,     \* set of packet hashes
    replay_expire,    \* queue of (hash, expiry)
    buckets,          \* ip -> (tokens, last_ts), tokens in 1/1000 token
    system_mode,      \* SystemMode
    inflight,         \* _inflight
    wpc,              \* per worker: position in _process_loop/_process_packet
    wentry,           \* per worker: the RingBufferEntry being processed
    delivered,        \* bag of the calls made to elevation_callback
    worker_errors,    \* "Worker error" log records of _process_loop
    now_ms,           \* time.time() in milliseconds
    reloads,          \* number of SIGHUP key reloads so far (at most one)
    recv_log,         \* bag of the datagrams recvfrom has returned
    net,              \* the datagrams the network may deliver
    \* ---- DualPathWatcher (gossip_v2.py), one entry per aggregator instance
    signals,                  \* self.signals: list of LeaseSignal
    last_elevation,           \* self.last_elevation, ms of the monotonic clock
    consecutive_elevations,   \* self.consecutive_elevations
    elevated,                 \* self.elevated
    writer_threads,           \* bag of the artifact threads started, not yet run
    configmaps,               \* the namespace's ConfigMaps: name -> labels, data
    api_log,                  \* bag of the create calls the API server has answered
    decision_log,             \* bag of the elevation decisions taken
    writer_failures,          \* failures the artifact writers have reported
    writer_raised,            \* artifact threads ended by an exception
    agg_now,                  \* the aggregator's clock, ms
    lease_stream,             \* the sentinels' lease updates, in order
    watch_pos,                \* per instance: events of the stream consumed
    fastpath_calls,           \* calls of handle_fastpath_signal so far
    \* ---- MicroActCatalog (microact_catalog_v2.py)
    cat_started,      \* the module is imported and the catalog constructed
    DRY_RUN,          \* ASWARM_DRY_RUN
    MAX_RING,         \* ASWARM_MAX_RING
    active_ttls,      \* self.active_ttls, in insertion order
    cat_now,          \* time.monotonic() and time.time(), seconds
    results,          \* the calls of execute so far, with their results
    mon_pc,           \* monitor thread: "scan", "revert" or "dead"
    mon_expired,      \* monitor thread: the entries it has popped
    mon_wake,         \* monitor thread: end of its time.sleep(1)
    last_scan,        \* time of the monitor's latest scan of the table
    reverted,         \* the _revert_action calls so far
    commands_run,     \* external commands run by subprocess.run
    certificates,     \* action certificates written
    \* ---- FastPathListener._monitor_loop and Stats' rate window
    elevation_callback,   \* the callback the listener was constructed with
    last_degrade_check,   \* self.last_degrade_check, ms
    rate_window_start,    \* Stats.rate_window_start, ms
    window_base,          \* counters at the start of the rate window
    \* ---- FastPathSender (fast_path_v4.py)
    sequence,         \* self.sequence
    sent,             \* the calls of send_elevation so far, with their outcome
    \* ---- measure_mttr_fast.py
    ACTION_CERT_DEMO_KEY,   \* the environment variable, "" when unset
    cert_files,       \* ActionCertificates/: path -> bytes of the file
    cert_writes,      \* the write_text calls so far: path and bytes written
    run_results,      \* the run_result records printed so far
    \* ---- DualPathTelemetry (telemetry_v2.py)
    _prev_high,       \* self._prev_high
    tel_sequence,     \* self.sequence
    tick,             \* the iteration of run_telemetry_loop in progress
    lease,            \* the node's Lease on the API server
    lease_calls,      \* the API calls of the latest update_lease
    tel_log           \* the log entries printed so far

rxVars == <<ring_buffer, dropped_count, stats, hmac_keys, src_sequences,
            replay_cache, replay_expire, buckets, system_mode, inflight,
            wpc, wentry, delivered, worker_errors, now_ms, reloads,
            recv_log, net>>

aggVars == <<signals, last_elevation, consecutive_elevations, elevated,
             writer_threads, configmaps, api_log, decision_log,
             writer_failures, writer_raised, agg_now, lease_stream,
             watch_pos, fastpath_calls>>

catVars == <<cat_started, DRY_RUN, MAX_RING, active_ttls, cat_now, results,
             mon_pc, mon_expired, mon_wake, last_scan, reverted,
             commands_run, certificates>>

monVars == <<elevation_callback, last_degrade_check, rate_window_start,
             window_base>>

sndVars == <<sequence, sent>>

certVars == <<ACTION_CERT_DEMO_KEY, cert_files, cert_writes, run_results>>

telVars == <<_prev_high, tel_sequence, tick, lease, lease_calls, tel_log>>

extVars == <<monVars, sndVars, certVars, telVars>>

vars == <<rxVars, aggVars, catVars, extVars>>

-----------------------------------------------------------------------------
(* Protocol constants of udp_listener_v4.py *)

VERSION == 3
TYPE_ELEVATION == 1
HEADER_SIZE == 27
HMAC_SIZE == 32
MAX_PACKET_SIZE == 1200
MAX_PAYLOAD == MAX_PACKET_SIZE - HEADER_SIZE - HMAC_SIZE
StaleLimitMs == 5000
DEFAULT_STALE_WINDOW_SEC == 60
ReplayWindow == 256
sample_divisor == 8
RateCapacity == 100
RateFillPerSec == 50
DoubleUlp == 256

(* Bounds of the model *)
MaxRecv == 3          \* datagrams received in a run
RingCapacity == 2     \* ring_buffer_size of the modelled listener
StartMs == 10000      \* clock value at start
TickMs == 5001        \* clock advance of one Tick

Workers == {"w1", "w2"}

Abs(x) == IF x < 0 THEN -x ELSE x
Max2(a, b) == IF a >= b THEN a ELSE b
Min2(a, b) == IF a <= b THEN a ELSE b

-----------------------------------------------------------------------------
(* Packets.  A datagram is the record of its header fields, its payload,   *)
(* its trailing tag and its length in bytes.                               *)

\* hmac.new(key, msg, sha256).digest(): a keyed hash, distinct for distinct
\* (key, msg).
HmacSha256(key, msg) == <<"hmac", key, msg>>

\* The bytes covered by the tag: header || payload.
SignedBytes(p) ==
    <<p.magic, p.version, p.ptype, p.ts_unix_ms, p.src_id, p.seq16,
      p.nonce32, p.payload_len, p.key_id, p.payload>>

\* hashlib.sha256(data).digest()[:16] over the whole datagram.
PacketHash(p) == <<"sha256", p>>

\* JSON values.  A string is its text and the number of bytes of its JSON
\* form between the quotes; a number is its value (scores in hundredths)
\* and the width of its decimal form; a time is an ISO-8601 string, kept as
\* the milliseconds it names; a dictionary is the sequence of its items in
\* insertion order.
JStr(s, w)    == [t |-> "str",  v |-> s,  w |-> w]
JNum(n, w)    == [t |-> "num",  v |-> n,  w |-> w]
JIso(ms)      == [t |-> "iso",  v |-> ms, w |-> 32]
JList(s, w)   == [t |-> "list", v |-> s,  w |-> w]
JDict(items)  == [t |-> "dict", v |-> items, w |-> 0]
Item(key, val) == [key |-> key, val |-> val]

\* key in d, d[key], and d[key] = val for a dictionary value d.
DictHas(d, key) == \E k \in 1..Len(d.v) : d.v[k].key = key
DictGet(d, key) ==
    d.v[CHOOSE k \in 1..Len(d.v) : d.v[k].key = key].val
DictSet(d, key, val) ==
    IF DictHas(d, key)
    THEN JDict([k \in 1..Len(d.v) |->
                   IF d.v[k].key = key THEN Item(key, val)
                   ELSE d.v[k]])
    ELSE JDict(Append(d.v, Item(key, val)))

\* d without key.
DictDel(d, key) == JDict(SelectSeq(d.v, LAMBDA it : it.key # key))

\* len(json.dumps(v, separators=(',', ':')).encode('utf-8'))
RECURSIVE JsonLen(_)
RECURSIVE ItemsLen(_)
JsonLen(v) ==
    CASE v.t = "str"  -> v.w + 2
      [] v.t = "iso"  -> v.w + 2
      [] v.t = "num"  -> v.w
      [] v.t = "list" -> v.w + 2
      [] v.t = "dict" -> ItemsLen(v.v) + 2
ItemsLen(items) ==
    IF items = <<>> THEN 0
    ELSE Len(Head(items).key) + 3 + JsonLen(Head(items).val)
         + (IF Len(items) > 1 THEN 1 ELSE 0) + ItemsLen(Tail(items))

\* The text of a document: its leaves in order, each a pair of the path of
\* keys that leads to it and the value there.
RECURSIVE JsonLeaves(_, _)
JsonLeaves(path, items) ==
    IF items = <<>> THEN <<>>
    ELSE LET it == Head(items)
             here == IF it.val.t = "dict" /\ it.val.v # <<>>
                     THEN JsonLeaves(Append(path, it.key), it.val.v)
                     ELSE <<<<Append(path, it.key), it.val>>>>
         IN  here \o JsonLeaves(path, Tail(items))

\* json.dumps(d, separators=(',', ':')).encode('utf-8')
json_dumps(d) ==
    [wellformed |-> TRUE, leaves |-> JsonLeaves(<<>>, d.v),
     nbytes |-> JsonLen(d)]

\* json.loads(payload.decode('utf-8')): the dictionary of a text.
RECURSIVE JsonItems(_)
JsonItems(leaves) ==
    IF leaves = <<>> THEN <<>>
    ELSE LET key   == Head(leaves)[1][1]
             mine  == SelectSeq(leaves, LAMBDA l : l[1][1] = key)
             rest  == SelectSeq(leaves, LAMBDA l : l[1][1] # key)
             below == [k \in 1..Len(mine) |->
                          <<Tail(mine[k][1]), mine[k][2]>>]
         IN  IF Len(Head(leaves)[1]) = 1
             THEN <<Item(key, mine[Len(mine)][2])>> \o JsonItems(rest)
             ELSE <<Item(key, JDict(JsonItems(below)))>> \o JsonItems(rest)

json_loads(payload) == JDict(JsonItems(payload.leaves))

\* A JSON document as a sender serialises it; wall = 0 stands for a
\* document without wall_ts.
Doc(node, run, score, wall) ==
    json_dumps(JDict(
        <<Item("node_id", JStr(node, 6))>>
        \o (IF wall = 0 THEN <<>> ELSE <<Item("wall_ts", JIso(wall))>>)
        \o <<Item("anomaly", JDict(<<Item("score", JNum(score, 4))>>)),
             Item("run_id", JStr(run, 4))>>))

NotJson == [wellformed |-> FALSE, leaves |-> <<>>, nbytes |-> 12]

\* FastPathSender._build_packet for protocol version 3.
BuildPacket(src, seq, nonce, kid, key, payload, ts) ==
    LET h == [magic |-> "ASWM", version |-> VERSION, ptype |-> TYPE_ELEVATION,
              ts_unix_ms |-> ts, src_id |-> src, seq16 |-> seq,
              nonce32 |-> nonce, payload_len |-> payload.nbytes,
              key_id |-> kid, payload |-> payload]
    IN  [magic |-> h.magic, version |-> h.version, ptype |-> h.ptype,
         ts_unix_ms |-> h.ts_unix_ms, src_id |-> h.src_id, seq16 |-> h.seq16,
         nonce32 |-> h.nonce32, payload_len |-> h.payload_len,
         key_id |-> h.key_id, payload |-> h.payload,
         tag |-> HmacSha256(key, SignedBytes(h)),
         size |-> HEADER_SIZE + payload.nbytes + HMAC_SIZE]

\* fast_path_v4.py lines 32-36: the sender's two wire versions; the V2
\* header '!4sBBQHHB' has 19 bytes.
V2 == 2
V3 == 3
V2_HEADER_SIZE == 19

\* FastPathSender._build_packet for protocol version 2 (lines 298-310):
\* the header is magic, version, type, ts_ns, seq16, payload_len, key_id,
\* the tag covers header || payload.  The fields are what a receiver reads
\* when it unpacks the first 27 bytes with the V3 format: the Q field is
\* ts_ns, the L after it the bytes of seq16 and payload_len, the H after
\* that the key_id byte and the '{' that opens the payload; nonce32,
\* payload_len and key_id are bytes 2 to 8 of the JSON text, which the
\* model does not spell out (JsonHead stands for them).
JsonHead == "json text"
BuildPacketV2(seq, kid, key, payload, ts) ==
    LET ts_ns == <<ts, "e6">>   \* int(time.time() * 1e9), beyond TLC's ints
    IN  [magic |-> "ASWM", version |-> V2, ptype |-> TYPE_ELEVATION,
         ts_unix_ms |-> ts_ns,
         src_id |-> seq * 65536 + payload.nbytes,
         seq16 |-> kid * 256 + 123,
         nonce32 |-> JsonHead, payload_len |-> JsonHead, key_id |-> JsonHead,
         payload |-> payload,
         tag |-> HmacSha256(key, <<"ASWM", V2, TYPE_ELEVATION, ts_ns, seq,
                                   payload.nbytes, kid, payload>>),
         size |-> V2_HEADER_SIZE + payload.nbytes + HMAC_SIZE]

DocA == Doc("node-a", "run1", 95, 0)
DocB == Doc("node-a", "run1", 96, 0)

PGood     == BuildPacket(1, 5, 7, 1, "k1", DocA, StartMs)
PNext     == BuildPacket(1, 6, 8, 1, "k1", DocA, StartMs)
PSameSeq  == BuildPacket(1, 5, 9, 1, "k1", DocB, StartMs)
POtherSrc == BuildPacket(2, 5, 7, 1, "k1", DocA, StartMs)
PKey2     == BuildPacket(1, 7, 7, 2, "k2", DocA, StartMs)
PNoKey    == BuildPacket(1, 8, 7, 9, "k9", DocA, StartMs)
PForged   == BuildPacket(1, 9, 7, 1, "evil", DocA, StartMs)
PStale    == BuildPacket(1, 10, 7, 1, "k1", DocA, StartMs - StaleLimitMs - 1)
PNotJson  == BuildPacket(1, 11, 7, 1, "k1", NotJson, StartMs)
PBadMagic == [PGood EXCEPT !.magic = "XXXX"]
PShort    == [PGood EXCEPT !.size = HEADER_SIZE + HMAC_SIZE - 1]

\* Datagrams at the limits of the checks: 5000 and 5001 ms old once the
\* clock has advanced, and sequences 256 and 257 behind a source's highest.
PAge5000 == BuildPacket(1, 20, 7, 1, "k1", DocA,
                        StartMs + TickMs - StaleLimitMs)
PAge5001 == BuildPacket(1, 21, 7, 1, "k1", DocA,
                        StartMs + TickMs - StaleLimitMs - 1)
PHigh    == BuildPacket(2, 300, 7, 1, "k1", DocA, StartMs)
PBack256 == BuildPacket(2, 300 - ReplayWindow, 8, 1, "k1", DocA, StartMs)
PBack257 == BuildPacket(2, 300 - ReplayWindow - 1, 9, 1, "k1", DocA, StartMs)

EdgePackets == {PShort, PAge5000, PAge5001, PHigh, PBack256, PBack257}

\* Datagrams the network may hand to recvfrom: authentic ones, replays,
\* and ones with an unknown key id or a forged tag.
AuthPackets == {PGood, PSameSeq, POtherSrc, PKey2, PNoKey, PForged}

Addrs == {<<"10.0.0.1", 40000>>}

\* Key tables: the constructor's and the ones a reload may read from the
\* environment.
InitialKeys == (1 :> "k1")
KeyEnvs == {(2 :> "k2")}

CounterNames == {"received", "valid", "invalid_magic", "invalid_version",
                 "invalid_type", "invalid_key", "invalid_hmac", "invalid_json",
                 "replays", "stale", "dropped_queue_full", "dropped_oldest",
                 "rate_limited"}

NoEntry == [data |-> PShort, addr |-> <<"", 0>>, recv_time |-> 0, age_ms |-> 0]


-----------------------------------------------------------------------------
(* RingBuffer *)

\* RingBuffer.push without the count of the entry a full deque drops.
RingPush_Uncounted(buffer, dropped, entry, capacity) ==
    LET was_full == Len(buffer) >= capacity
    IN  [buffer  |-> IF was_full THEN Append(Tail(buffer), entry)
                                 ELSE Append(buffer, entry),
         dropped |-> dropped,
         added   |-> ~was_full]

\* RingBuffer.push: deque(maxlen=capacity).append drops the leftmost entry
\* of a full deque; the drop is counted before the append.
RingPush(buffer, dropped, entry, capacity) ==
    LET was_full == Len(buffer) >= capacity
    IN  [buffer  |-> IF was_full THEN Append(Tail(buffer), entry)
                                 ELSE Append(buffer, entry),
         dropped |-> IF was_full THEN dropped + 1 ELSE dropped,
         added   |-> ~was_full]

(* Stats *)

Inc(s, counter) == [s EXCEPT ![counter] = @ + 1]
IncIf(s, counter) == IF counter = "none" THEN s ELSE Inc(s, counter)

(* Per-IP token bucket, tokens in 1/1000 token, time in ms *)

\* AllowIp that needs more than one token to accept.
AllowIp_MoreThanOne(bk, ip, now) ==
    LET cur    == IF ip \in DOMAIN bk THEN bk[ip]
                  ELSE [tokens |-> RateCapacity * 1000, last |-> now]
        delta  == Max2(0, now - cur.last)
        tokens == Min2(RateCapacity * 1000, cur.tokens + delta * RateFillPerSec)
    IN  IF tokens <= 1000
        THEN [ok |-> FALSE,
              buckets |-> [x \in DOMAIN bk \cup {ip} |->
                             IF x = ip THEN [tokens |-> tokens, last |-> now]
                             ELSE bk[x]]]
        ELSE [ok |-> TRUE,
              buckets |-> [x \in DOMAIN bk \cup {ip} |->
                             IF x = ip THEN [tokens |-> tokens - 1000, last |-> now]
                             ELSE bk[x]]]

\* Lines 717-730: the bucket of ip refilled for the time since its last
\* packet, then one token taken if there is one.
AllowIp(bk, ip, now) ==
    LET cur    == IF ip \in DOMAIN bk THEN bk[ip]
                  ELSE [tokens |-> RateCapacity * 1000, last |-> now]
        delta  == Max2(0, now - cur.last)
        tokens == Min2(RateCapacity * 1000, cur.tokens + delta * RateFillPerSec)
    IN  IF tokens < 1000
        THEN [ok |-> FALSE,
              buckets |-> [x \in DOMAIN bk \cup {ip} |->
                             IF x = ip THEN [tokens |-> tokens, last |-> now]
                             ELSE bk[x]]]
        ELSE [ok |-> TRUE,
              buckets |-> [x \in DOMAIN bk \cup {ip} |->
                             IF x = ip THEN [tokens |-> tokens - 1000, last |-> now]
                             ELSE bk[x]]]

\* allow_cidrs of the modelled listener (None: every source is allowed).
AllowedNetworks == {}

SourceAllowed(ip) == AllowedNetworks = {} \/ ip \in AllowedNetworks

-----------------------------------------------------------------------------
(* _process_packet, check by check *)

\* Lines 491-533: size, header, magic, version, type, payload length, total
\* size, key lookup.  The verdict names the first failing check.
ParseVerdict(p, keys) ==
    IF p.size < HEADER_SIZE + HMAC_SIZE THEN "too_short"
    ELSE IF p.magic # "ASWM" THEN "invalid_magic"
    ELSE IF p.version # VERSION THEN "invalid_version"
    ELSE IF p.ptype # TYPE_ELEVATION THEN "invalid_type"
    ELSE IF p.payload_len > MAX_PAYLOAD THEN "oversize_payload"
    ELSE IF p.size # HEADER_SIZE + p.payload_len + HMAC_SIZE THEN "size_mismatch"
    ELSE IF p.key_id \notin DOMAIN keys THEN "invalid_key"
    ELSE "ok"

\* The counter a verdict increments ("none": the packet is dropped uncounted).
CounterOf(verdict) ==
    IF verdict \in {"invalid_magic", "invalid_version", "invalid_type",
                    "invalid_key", "invalid_hmac", "invalid_json",
                    "stale", "valid"}
    THEN verdict
    ELSE IF verdict \in {"replay_seq", "replay_hash"} THEN "replays"
    ELSE "none"

\* VerifyVerdict without the comparison of the tag.
VerifyVerdict_NoCompare(p, keys, now) ==
    IF Abs(now - p.ts_unix_ms) > StaleLimitMs THEN "stale"
    ELSE IF p.key_id \notin DOMAIN keys THEN "key_error"
    ELSE "ok"

\* VerifyVerdict with the age limit itself counted as stale.
VerifyVerdict_AgeAtLimit(p, keys, now) ==
    IF Abs(now - p.ts_unix_ms) >= StaleLimitMs THEN "stale"
    ELSE IF p.key_id \notin DOMAIN keys THEN "key_error"
    ELSE IF p.tag # HmacSha256(keys[p.key_id], SignedBytes(p)) THEN "invalid_hmac"
    ELSE "ok"

\* Lines 535-548: timestamp age, then the HMAC over header||payload with
\* the key looked up AGAIN in the key table (a KeyError if a reload removed
\* it since the lookup of line 531).
VerifyVerdict(p, keys, now) ==
    IF Abs(now - p.ts_unix_ms) > StaleLimitMs THEN "stale"
    ELSE IF p.key_id \notin DOMAIN keys THEN "key_error"
    ELSE IF p.tag # HmacSha256(keys[p.key_id], SignedBytes(p)) THEN "invalid_hmac"
    ELSE "ok"

\* self.src_sequences.get(src_id, (0, set()))
SeqState(table, src) ==
    IF src \in DOMAIN table THEN table[src]
    ELSE [highest |-> 0, seen |-> {}]

\* IsSeqReplay without the too-old branch of line 556.
IsSeqReplay_SeenOnly(st, seq16) == seq16 \in st.seen

\* Lines 556-561: too old, or already seen.
IsSeqReplay(st, seq16) ==
    \/ seq16 <= st.highest - ReplayWindow
    \/ seq16 \in st.seen

\* SeqAccept with min_keep one sequence too high.
SeqAccept_KeepOneLess(st, seq16) ==
    LET highest == IF seq16 > st.highest THEN seq16 ELSE st.highest
        seen    == st.seen \cup {seq16}
        min_keep == highest - (ReplayWindow - 2)
    IN  [highest |-> highest,
         seen    |-> IF Cardinality(seen) > ReplayWindow
                     THEN {s \in seen : s >= min_keep}
                     ELSE seen]

\* Lines 564-573: the per-source entry after accepting seq16.
SeqAccept(st, seq16) ==
    LET highest == IF seq16 > st.highest THEN seq16 ELSE st.highest
        seen    == st.seen \cup {seq16}
        min_keep == highest - (ReplayWindow - 1)
    IN  [highest |-> highest,
         seen    |-> IF Cardinality(seen) > ReplayWindow
                     THEN {s \in seen : s >= min_keep}
                     ELSE seen]

\* Lines 576-582: the packet-hash cache check.
IsHashReplay(cache, p) == PacketHash(p) \in cache

\* Lines 585-610: JSON decode and the secondary wall_ts staleness check.
FinalVerdict(p, now) ==
    IF ~p.payload.wellformed THEN "invalid_json"
    ELSE LET payload_data == json_loads(p.payload)
         IN  IF /\ DictHas(payload_data, "wall_ts")
                /\ DictGet(payload_data, "wall_ts").t \in {"iso", "num"}
                /\ DictGet(payload_data, "wall_ts").v # 0
                /\ Max2(0, now - DictGet(payload_data, "wall_ts").v)
                      > DEFAULT_STALE_WINDOW_SEC * 1000
             THEN "stale"
             ELSE "valid"

\* f"{src_id:08x}": the source id as 8 hex digits.
Hex8(n) == <<"hex8", n>>

\* WithMetadata handing the callback the payload bytes as they arrived,
\* without json.loads.
WithMetadata_Undecoded(e) ==
    [payload |-> e.data.payload,
     fastpath |-> [source_ip |-> e.addr[1], source_port |-> e.addr[2],
                   src_id |-> Hex8(e.data.src_id), seq16 |-> e.data.seq16,
                   nonce32 |-> Hex8(e.data.nonce32), key_id |-> e.data.key_id,
                   ts_unix_ms |-> e.data.ts_unix_ms, age_ms |-> e.age_ms],
     data |-> e.data]

\* Lines 585 and 615-625: payload_data = json.loads(...) and
\* payload_data['_fastpath'] = {...}.  The callback's dictionary is kept in
\* two parts: the decoded items other than '_fastpath', and the metadata
\* that is stored under that key.
WithMetadata(e) ==
    [payload |-> DictDel(json_loads(e.data.payload), "_fastpath"),
     fastpath |-> [source_ip |-> e.addr[1], source_port |-> e.addr[2],
                   src_id |-> Hex8(e.data.src_id), seq16 |-> e.data.seq16,
                   nonce32 |-> Hex8(e.data.nonce32), key_id |-> e.data.key_id,
                   ts_unix_ms |-> e.data.ts_unix_ms, age_ms |-> e.age_ms],
     data |-> e.data]

\* int(recv_time * 1e9 + port) % sample_divisor.  recv_time * 1e9 is a
\* double near 1.7e18, where doubles are DoubleUlp apart: the float sum is
\* k * DoubleUlp for an integer k (here the k of the millisecond clock).
SampleHash(e) ==
    (DoubleUlp * (e.recv_time + e.addr[2])) % sample_divisor

-----------------------------------------------------------------------------
(* Initial state of the listener *)

InitListener ==
    /\ ring_buffer = <<>>
    /\ dropped_count = 0
    /\ stats = [c \in CounterNames |-> 0]
    /\ hmac_keys = InitialKeys
    /\ src_sequences = <<>>
    /\ replay_cache = {}
    /\ replay_expire = <<>>
    /\ buckets = <<>>
    /\ system_mode = "normal"
    /\ inflight = 0
    /\ wpc = [w \in Workers |-> "idle"]
    /\ wentry = [w \in Workers |-> NoEntry]
    /\ delivered = EmptyBag
    /\ worker_errors = 0
    /\ now_ms = StartMs
    /\ reloads = 0
    /\ recv_log = EmptyBag

InitRx ==
    /\ InitListener
    /\ net = AuthPackets

-----------------------------------------------------------------------------
(* Actions of the listener *)

\* _receive_loop, one datagram: count it, source filter, per-IP rate limit,
\* push to the ring.
ReceiveLoop ==
    /\ stats["received"] < MaxRecv
    /\ \E data \in net, addr \in Addrs :
         /\ recv_log' = recv_log (+) SetToBag({data})
         /\ LET st1 == Inc(stats, "received")
                rl  == AllowIp(buckets, addr[1], now_ms)
                e   == [data |-> data, addr |-> addr, recv_time |-> now_ms,
                        age_ms |-> 0]
                ps  == RingPush(ring_buffer, dropped_count, e, RingCapacity)
            IN  IF ~SourceAllowed(addr[1])
                THEN /\ stats' = st1
                     /\ UNCHANGED <<buckets, ring_buffer, dropped_count>>
                ELSE IF ~rl.ok
                THEN /\ stats' = Inc(st1, "rate_limited")
                     /\ buckets' = rl.buckets
                     /\ UNCHANGED <<ring_buffer, dropped_count>>
                ELSE /\ stats' = st1
                     /\ buckets' = rl.buckets
                     /\ ring_buffer' = ps.buffer
                     /\ dropped_count' = ps.dropped
    /\ UNCHANGED <<hmac_keys, src_sequences, replay_cache, replay_expire,
                   system_mode, inflight, wpc, wentry, delivered,
                   worker_errors, now_ms, reloads, net, aggVars, catVars, extVars>>

\* The worker leaves _process_packet: the finally block of _process_loop.
Finish(w) ==
    /\ inflight' = inflight - 1
    /\ wpc' = [wpc EXCEPT ![w] = "idle"]
    /\ wentry' = [wentry EXCEPT ![w] = NoEntry]

\* _process_loop lines 467-474: OVERLOAD sampling.  size/capacity > 0.98.
Overloaded(buffer) == /\ system_mode = "degraded"
                      /\ Len(buffer) * 100 > 98 * RingCapacity

\* _process_loop lines 456-474 and _process_packet lines 491-533:
\* ring_buffer.pop, the in-flight count, the sampling decision (a
\* sampled-out entry leaves through the finally block at once) and the
\* checks up to the key lookup, which read nothing but the key table.
WorkerPop(w) ==
    /\ wpc[w] = "idle"
    /\ ring_buffer # <<>>
    /\ ring_buffer' = Tail(ring_buffer)
    /\ LET e == Head(ring_buffer)
           v == ParseVerdict(e.data, hmac_keys)
       IN  IF Overloaded(Tail(ring_buffer)) /\ SampleHash(e) # 0
           THEN UNCHANGED <<wentry, inflight, wpc, stats>>
           ELSE IF v = "ok"
           THEN /\ wentry' = [wentry EXCEPT ![w] = e]
                /\ inflight' = inflight + 1
                /\ wpc' = [wpc EXCEPT ![w] = "verify"]
                /\ UNCHANGED stats
           ELSE /\ stats' = IncIf(stats, CounterOf(v))
                /\ UNCHANGED <<wentry, inflight, wpc>>
    /\ UNCHANGED <<dropped_count, hmac_keys, src_sequences,
                   replay_cache, replay_expire, buckets, system_mode,
                   delivered, worker_errors, now_ms, reloads, recv_log, net, aggVars, catVars, extVars>>

\* _process_packet lines 535-548.  A KeyError leaves through the except
\* clause of _process_loop, which logs it.
WorkerVerify(w) ==
    /\ wpc[w] = "verify"
    /\ LET p == wentry[w].data
           v == VerifyVerdict(p, hmac_keys, now_ms)
       IN  IF v = "ok"
           THEN /\ wpc' = [wpc EXCEPT ![w] = "seq"]
                /\ wentry' = [wentry EXCEPT ![w].age_ms = Abs(now_ms - p.ts_unix_ms)]
                /\ UNCHANGED <<stats, inflight, worker_errors>>
           ELSE /\ stats' = IncIf(stats, CounterOf(v))
                /\ worker_errors' = IF v = "key_error" THEN worker_errors + 1
                                    ELSE worker_errors
                /\ Finish(w)
    /\ UNCHANGED <<ring_buffer, dropped_count, hmac_keys, src_sequences,
                   replay_cache, replay_expire, buckets, system_mode,
                   delivered, now_ms, reloads, recv_log, net, aggVars, catVars, extVars>>

\* WorkerSeqCheck with the return of the replay branch missing: the replay
\* is counted and the packet goes on to the hash check.
WorkerSeqCheck_NoReturn(w) ==
    /\ wpc[w] = "seq"
    /\ LET p  == wentry[w].data
           st == SeqState(src_sequences, p.src_id)
       IN  /\ stats' = IF IsSeqReplay(st, p.seq16)
                       THEN Inc(stats, CounterOf("replay_seq")) ELSE stats
           /\ src_sequences' =
                 [s \in DOMAIN src_sequences \cup {p.src_id} |->
                     IF s = p.src_id THEN SeqAccept(st, p.seq16)
                     ELSE src_sequences[s]]
           /\ wpc' = [wpc EXCEPT ![w] = "hash"]
           /\ UNCHANGED <<inflight, wentry>>
    /\ UNCHANGED <<ring_buffer, dropped_count, hmac_keys, replay_cache,
                   replay_expire, buckets, system_mode, delivered,
                   worker_errors, now_ms, reloads, recv_log, net, aggVars, catVars, extVars>>

\* _process_packet lines 550-573, one critical section of seq_lock.
WorkerSeqCheck(w) ==
    /\ wpc[w] = "seq"
    /\ LET p  == wentry[w].data
           st == SeqState(src_sequences, p.src_id)
       IN  IF IsSeqReplay(st, p.seq16)
           THEN /\ stats' = Inc(stats, CounterOf("replay_seq"))
                /\ Finish(w)
                /\ UNCHANGED src_sequences
           ELSE /\ src_sequences' =
                      [s \in DOMAIN src_sequences \cup {p.src_id} |->
                          IF s = p.src_id THEN SeqAccept(st, p.seq16)
                          ELSE src_sequences[s]]
                /\ wpc' = [wpc EXCEPT ![w] = "hash"]
                /\ UNCHANGED <<stats, inflight, wentry>>
    /\ UNCHANGED <<ring_buffer, dropped_count, hmac_keys, replay_cache,
                   replay_expire, buckets, system_mode, delivered,
                   worker_errors, now_ms, reloads, recv_log, net, aggVars, catVars, extVars>>

\* _process_packet lines 575-631: the packet-hash check in one critical
\* section of replay_lock, then JSON, wall_ts, the valid counter, the
\* metadata and the call of elevation_callback, which touch nothing shared
\* but the counters.
WorkerHashCheck(w) ==
    /\ wpc[w] = "hash"
    /\ LET p == wentry[w].data
           v == FinalVerdict(p, now_ms)
       IN  IF IsHashReplay(replay_cache, p)
           THEN /\ stats' = Inc(stats, CounterOf("replay_hash"))
                /\ UNCHANGED <<replay_cache, replay_expire, delivered>>
           ELSE /\ replay_cache' = replay_cache \cup {PacketHash(p)}
                /\ replay_expire' = Append(replay_expire,
                       <<PacketHash(p), now_ms + DEFAULT_STALE_WINDOW_SEC * 1000>>)
                /\ stats' = IncIf(stats, CounterOf(v))
                /\ delivered' = IF v = "valid"
                                THEN delivered (+) SetToBag({WithMetadata(wentry[w])})
                                ELSE delivered
    /\ Finish(w)
    /\ UNCHANGED <<ring_buffer, dropped_count, hmac_keys, src_sequences,
                   buckets, system_mode, worker_errors, now_ms,
                   reloads, recv_log, net, aggVars, catVars, extVars>>

\* reload_keys on SIGHUP: the table is replaced by the environment's keys.
ReloadKeys ==
    /\ reloads = 0
    /\ \E new_keys \in KeyEnvs :
         /\ hmac_keys' = new_keys
         /\ reloads' = reloads + 1
    /\ UNCHANGED <<ring_buffer, dropped_count, stats, src_sequences,
                   replay_cache, replay_expire, buckets, system_mode,
                   inflight, wpc, wentry, delivered, worker_errors, now_ms,
                   recv_log, net, aggVars, catVars, extVars>>

\* _maintenance_loop lines 639-657 (the cache never exceeds
\* REPLAY_CACHE_SIZE = 10000 within the bounds): expired hashes leave the cache and
\* the ring's drop count moves to the dropped_oldest counter.
RECURSIVE ExpireFrom(_, _, _)
ExpireFrom(queue, cache, now) ==
    IF queue # <<>> /\ Head(queue)[2] < now
    THEN ExpireFrom(Tail(queue), cache \ {Head(queue)[1]}, now)
    ELSE [queue |-> queue, cache |-> cache]

Maintenance ==
    /\ \/ dropped_count > 0
       \/ (replay_expire # <<>> /\ Head(replay_expire)[2] < now_ms)
    /\ LET ex == ExpireFrom(replay_expire, replay_cache, now_ms)
       IN  /\ replay_expire' = ex.queue
           /\ replay_cache' = ex.cache
    /\ stats' = [stats EXCEPT !["dropped_oldest"] = @ + dropped_count]
    /\ dropped_count' = 0
    /\ UNCHANGED <<ring_buffer, hmac_keys, src_sequences, buckets,
                   system_mode, inflight, wpc, wentry, delivered,
                   worker_errors, now_ms, reloads, recv_log, net, aggVars, catVars, extVars>>

\* The clock advances (once in a run, past the staleness limit).
Tick ==
    /\ now_ms = StartMs
    /\ now_ms' = now_ms + TickMs
    /\ UNCHANGED <<ring_buffer, dropped_count, stats, hmac_keys,
                   src_sequences, replay_cache, replay_expire, buckets,
                   system_mode, inflight, wpc, wentry, delivered,
                   worker_errors, reloads, recv_log, net, aggVars, catVars, extVars>>

MaxMillis == 2        \* single milliseconds the clock may advance by

\* The clock advances by one millisecond.
Millisecond ==
    /\ now_ms < StartMs + MaxMillis
    /\ now_ms' = now_ms + 1
    /\ UNCHANGED <<ring_buffer, dropped_count, stats, hmac_keys,
                   src_sequences, replay_cache, replay_expire, buckets,
                   system_mode, inflight, wpc, wentry, delivered,
                   worker_errors, reloads, recv_log, net, aggVars, catVars, extVars>>

-----------------------------------------------------------------------------
(* Back-pressure: Stats.get_drop_rate and _monitor_loop.  A rate is kept as *)
(* the pair of its numerator and denominator.                               *)

DROP_RATE_CHECK_WINDOW == 60       \* seconds
DEGRADE_CHECK_WINDOW == 30         \* seconds
MonitorMinWindowS == 10            \* window < 10
HotForLimitMs == 3000              \* hot_for > 3
ElapseMs == 10000                  \* clock advance of one Elapse
MaxMonitorS == 8                   \* seconds the monitor thread runs

Callbacks == {"_default_callback", "handle_fastpath_signal"}

\* _default_callback lines 340-343: the default callback returns at once
\* unless the mode is NORMAL; a callback passed to the constructor runs.
CallbackOutcome(callback, mode) ==
    IF callback = "_default_callback" /\ mode # "normal" THEN "skipped"
    ELSE "ran"

\* Stats.increment lines 143-146: the counters of the rate window.
WindowReceived == stats["received"] - window_base.received
DroppedTotal(s) ==
    s["dropped_queue_full"] + s["dropped_oldest"] + s["rate_limited"]
WindowDropped == DroppedTotal(stats) - window_base.dropped

\* Stats.get_drop_rate: the rate, the window in whole seconds, and whether
\* the window starts anew.
get_drop_rate(now) ==
    LET window_duration == now - rate_window_start
    IN  IF window_duration > DROP_RATE_CHECK_WINDOW * 1000
        THEN [num |-> 0, den |-> 1, window |-> 0, reset |-> TRUE]
        ELSE IF WindowReceived = 0
        THEN [num |-> 0, den |-> 1, window |-> window_duration \div 1000,
              reset |-> FALSE]
        ELSE [num |-> WindowDropped, den |-> WindowReceived,
              window |-> window_duration \div 1000, reset |-> FALSE]

\* MonitorDecision with the recovery branch taken on the drop rate alone,
\* whatever the queue holds.
MonitorDecision_AnyQueue(mode, q_depth, capacity, dr, now, last_check) ==
    LET keep == [mode |-> mode, last_check |-> last_check]
    IN  IF q_depth * 10 > 9 * Max2(1, capacity)
        THEN IF now - last_check > HotForLimitMs /\ mode = "normal"
             THEN [mode |-> "degraded", last_check |-> last_check]
             ELSE keep
        ELSE IF dr.num * 100 > 2 * dr.den
        THEN IF mode = "normal"
                /\ now - last_check > DEGRADE_CHECK_WINDOW * 1000
             THEN [mode |-> "degraded", last_check |-> last_check]
             ELSE keep
        ELSE IF dr.num * 1000 > 5 * dr.den THEN keep
        ELSE IF dr.num * 10000 < 25 * dr.den
        THEN IF mode = "degraded"
             THEN [mode |-> "normal", last_check |-> now]
             ELSE keep
        ELSE keep

\* _monitor_loop lines 681-708: the mode and last_degrade_check one pass
\* leaves.  q_depth / capacity is compared in tenths, the rates in 1/10000.
MonitorDecision(mode, q_depth, capacity, dr, now, last_check) ==
    LET keep == [mode |-> mode, last_check |-> last_check]
    IN  IF q_depth * 10 > 9 * Max2(1, capacity)
        THEN IF now - last_check > HotForLimitMs /\ mode = "normal"
             THEN [mode |-> "degraded", last_check |-> last_check]
             ELSE keep
        ELSE IF dr.num * 100 > 2 * dr.den
        THEN IF mode = "normal"
                /\ now - last_check > DEGRADE_CHECK_WINDOW * 1000
             THEN [mode |-> "degraded", last_check |-> last_check]
             ELSE keep
        ELSE IF dr.num * 1000 > 5 * dr.den THEN keep
        ELSE IF q_depth * 10 < 2 * Max2(1, capacity)
                /\ dr.num * 10000 < 25 * dr.den
        THEN IF mode = "degraded"
             THEN [mode |-> "normal", last_check |-> now]
             ELSE keep
        ELSE keep

\* _monitor_loop lines 668-708, one pass at time now: the rate window, the
\* mode and last_degrade_check it leaves.
MonitorPass(now) ==
    LET dr == get_drop_rate(now)
        d  == MonitorDecision(system_mode, Len(ring_buffer), RingCapacity,
                              dr, now, last_degrade_check)
    IN  /\ IF dr.reset
           THEN /\ rate_window_start' = now
                /\ window_base' = [received |-> stats["received"],
                                   dropped |-> DroppedTotal(stats)]
           ELSE UNCHANGED <<rate_window_start, window_base>>
        /\ IF dr.window < MonitorMinWindowS
           THEN UNCHANGED <<system_mode, last_degrade_check>>
           ELSE /\ system_mode' = d.mode
                /\ last_degrade_check' = d.last_check

\* _monitor_loop, one pass after its sleep.
MonitorLoop ==
    /\ MonitorPass(now_ms)
    /\ UNCHANGED <<ring_buffer, dropped_count, stats, hmac_keys,
                   src_sequences, replay_cache, replay_expire, buckets,
                   inflight, wpc, wentry, delivered, worker_errors, now_ms,
                   reloads, recv_log, net, elevation_callback, aggVars,
                   catVars, sndVars, certVars, telVars>>

\* _monitor_loop, one iteration with its sleep: time.sleep(1) lets one
\* second pass, then the pass runs.
MonitorSecond ==
    /\ now_ms + 1000 <= StartMs + MaxMonitorS * 1000
    /\ now_ms' = now_ms + 1000
    /\ MonitorPass(now_ms + 1000)
    /\ UNCHANGED <<ring_buffer, dropped_count, stats, hmac_keys,
                   src_sequences, replay_cache, replay_expire, buckets,
                   inflight, wpc, wentry, delivered, worker_errors,
                   reloads, recv_log, net, elevation_callback, aggVars,
                   catVars, sndVars, certVars, telVars>>

\* The clock advances by the time the monitor needs before it acts (once
\* in a run).
Elapse ==
    /\ now_ms = StartMs
    /\ now_ms' = now_ms + ElapseMs
    /\ UNCHANGED <<ring_buffer, dropped_count, stats, hmac_keys,
                   src_sequences, replay_cache, replay_expire, buckets,
                   system_mode, inflight, wpc, wentry, delivered,
                   worker_errors, reloads, recv_log, net, aggVars, catVars,
                   extVars>>

\* Datagrams sent once that time has passed.
PLateA == BuildPacket(1, 5, 7, 1, "k1", DocA, StartMs + ElapseMs)
PLateB == BuildPacket(1, 6, 8, 1, "k1", DocA, StartMs + ElapseMs)
LatePackets == {PLateA, PLateB}

-----------------------------------------------------------------------------
(* DualPathWatcher (gossip_v2.py).  Scores are in hundredths, times in ms.  *)

WindowMs == 80               \* window_ms
QuorumThreshold == 2         \* quorum_threshold of the modelled deployment
NodeScoreThreshold == 70     \* node_score_threshold = 0.7
FastPathScore == 90          \* fast_path_score = 0.90
ElevationBackoffMs == 2000   \* elevation_backoff = 2.0
SignalsCap == 1000           \* len(self.signals) > 1000
SignalsKeep == 500           \* self.signals[-500:]

MaxSignals == 3              \* signals the sentinels send in a run, both transports
AggStartMs == 5000           \* clock value at start
AggTickMs == 100             \* clock advance of one AggTick
MaxRuleSignals == 3          \* signals of a run of the decision rules
MaxBackoffs == 1             \* backoff periods that pass in such a run
BaseSignals == 18            \* lease events a long-running instance has seen
MoreSignals == 3             \* lease events that follow them

Instances == {"a1", "a2"}
Nodes == {"n1", "n2"}
Scores == {75, 95}
RuleScores == {60, 72, 95}   \* below the threshold, above it, fast-path
AggRunIds == {"r1", "r2"}
WatchRunId == "r1"           \* the --run-id every instance is started with

\* The answers of create_namespaced_config_map: the status and whether the
\* text of the exception holds the characters "409".
Created  == [status |-> 201, text409 |-> FALSE]
Conflict == [status |-> 409, text409 |-> TRUE]
Failures == {[status |-> 500, text409 |-> FALSE],
             [status |-> 0, text409 |-> FALSE]}    \* no HTTP answer

\* parse_lease_signal: the LeaseSignal of a watch event.  server_ts is
\* NoServerTs for a lease without renew_time.
NoServerTs == -1
LeaseSignal(node, score, server_ts, run_id) ==
    [node |-> node, score |-> score, server_ts |-> server_ts,
     run_id |-> run_id]

\* The payload dictionary the listener hands to elevation_callback.
ElevationData(node, score, run_id, witness_count) ==
    [node_id |-> node, run_id |-> run_id,
     anomaly |-> [score |-> score, witness_count |-> witness_count]]

\* The witness_count a sentinel reports inside its datagram.
ReportedWitnessCounts == {4}

\* Lines 318-329: the elevation_event of handle_fastpath_signal.  The
\* datagrams of the model carry no selector and no event_type, and the
\* listener's '_fastpath' metadata has no 'approx_age_ms'.
ElevationEvent(elevation_data, decision_ts) ==
    [elevation |-> TRUE, decision_ts_server |-> decision_ts,
     source |-> "fastpath", node |-> elevation_data.node_id,
     score |-> elevation_data.anomaly.score,
     witness_count |-> elevation_data.anomaly.witness_count,
     selector |-> "", event_type |-> "fastpath", latency_ms |-> 0,
     run_id |-> elevation_data.run_id]

\* Lines 269-278: the elevation_data of create_elevation_artifact_bg;
\* mean_score is the pair of the sum and the number of the scores.
BgElevationData(metrics, run_id, decision_ts_server, reason) ==
    [run_id |-> run_id, decision_ts_server |-> decision_ts_server,
     witness_count |-> metrics.witness_count,
     mean_score |-> <<metrics.sum_score, metrics.total_samples>>,
     p95_score |-> metrics.p95_score, threshold |-> QuorumThreshold,
     window_ms |-> WindowMs, reason |-> reason]

RECURSIVE SumSeq(_)
SumSeq(q) == IF q = <<>> THEN 0 ELSE Head(q) + SumSeq(Tail(q))

RECURSIVE InsertSorted(_, _)
InsertSorted(x, q) ==
    IF q = <<>> THEN <<x>>
    ELSE IF x <= Head(q) THEN <<x>> \o q
    ELSE <<Head(q)>> \o InsertSorted(x, Tail(q))

RECURSIVE Sorted(_)
Sorted(q) == IF q = <<>> THEN <<>> ELSE InsertSorted(Head(q), Sorted(Tail(q)))

\* int(0.95 * n), exact for the list lengths of the model (n < 20).
P95Index(n) == (95 * n) \div 100

NoMetrics == [witness_count |-> 0, total_samples |-> 0, sum_score |-> 0,
              p95_score |-> 0]

\* Lines 147-155: the signals of the window, in list order.
WindowSignals(sigs, run_id, now) ==
    SelectSeq(sigs, LAMBDA s : /\ s.server_ts # NoServerTs
                               /\ s.server_ts >= now - WindowMs
                               /\ (run_id = "none" \/ s.run_id = run_id))

\* compute_sliding_window_quorum.  mean_score is kept as the sum of the
\* scores over total_samples.
compute_sliding_window_quorum(sigs, run_id, now) ==
    LET ws     == WindowSignals(sigs, run_id, now)
        scores == [k \in 1..Len(ws) |-> ws[k].score]
    IN  IF ws = <<>> THEN NoMetrics
        ELSE [witness_count |-> Cardinality({ws[k].node : k \in 1..Len(ws)}),
              total_samples |-> Len(ws),
              sum_score     |-> SumSeq(scores),
              p95_score     |-> Sorted(scores)[P95Index(Len(scores)) + 1]]

\* metrics.mean_score >= threshold
MeanAtLeast(metrics, threshold) ==
    metrics.sum_score >= threshold * metrics.total_samples

\* should_elevate that elevates on the first high window.
should_elevate_NoBuilding(metrics, i, now) ==
    LET same(ok, reason) ==
            [ok |-> ok, reason |-> reason, elevated |-> elevated[i],
             consecutive |-> consecutive_elevations[i]]
    IN  IF metrics = NoMetrics THEN same(FALSE, "no_metrics")
        ELSE IF now - last_elevation[i] < ElevationBackoffMs
        THEN same(FALSE, "backoff")
        ELSE IF elevated[i] THEN same(FALSE, "already_elevated")
        ELSE IF metrics.witness_count < QuorumThreshold
        THEN same(FALSE, "quorum")
        ELSE IF metrics.p95_score >= FastPathScore
        THEN [ok |-> TRUE, reason |-> "fast_path", elevated |-> TRUE,
              consecutive |-> consecutive_elevations[i]]
        ELSE IF MeanAtLeast(metrics, NodeScoreThreshold)
        THEN [ok |-> TRUE, reason |-> "hysteresis", elevated |-> TRUE,
              consecutive |-> consecutive_elevations[i] + 1]
        ELSE [ok |-> FALSE, reason |-> "reset_hysteresis",
              elevated |-> elevated[i], consecutive |-> 0]

\* should_elevate with the already-elevated test ahead of the backoff test.
should_elevate_ElevatedFirst(metrics, i, now) ==
    LET same(ok, reason) ==
            [ok |-> ok, reason |-> reason, elevated |-> elevated[i],
             consecutive |-> consecutive_elevations[i]]
    IN  IF metrics = NoMetrics THEN same(FALSE, "no_metrics")
        ELSE IF elevated[i] THEN same(FALSE, "already_elevated")
        ELSE IF now - last_elevation[i] < ElevationBackoffMs
        THEN same(FALSE, "backoff")
        ELSE IF metrics.witness_count < QuorumThreshold
        THEN same(FALSE, "quorum")
        ELSE IF metrics.p95_score >= FastPathScore
        THEN [ok |-> TRUE, reason |-> "fast_path", elevated |-> TRUE,
              consecutive |-> consecutive_elevations[i]]
        ELSE IF MeanAtLeast(metrics, NodeScoreThreshold)
        THEN IF consecutive_elevations[i] + 1 >= 2
             THEN [ok |-> TRUE, reason |-> "hysteresis", elevated |-> TRUE,
                   consecutive |-> consecutive_elevations[i] + 1]
             ELSE [ok |-> FALSE, reason |-> "building",
                   elevated |-> elevated[i],
                   consecutive |-> consecutive_elevations[i] + 1]
        ELSE [ok |-> FALSE, reason |-> "reset_hysteresis",
              elevated |-> elevated[i], consecutive |-> 0]

\* should_elevate: the answer, the reason, and the fields it leaves.
should_elevate(metrics, i, now) ==
    LET same(ok, reason) ==
            [ok |-> ok, reason |-> reason, elevated |-> elevated[i],
             consecutive |-> consecutive_elevations[i]]
    IN  IF metrics = NoMetrics THEN same(FALSE, "no_metrics")
        ELSE IF now - last_elevation[i] < ElevationBackoffMs
        THEN same(FALSE, "backoff")
        ELSE IF elevated[i] THEN same(FALSE, "already_elevated")
        ELSE IF metrics.witness_count < QuorumThreshold
        THEN same(FALSE, "quorum")
        ELSE IF /\ metrics.witness_count >= QuorumThreshold
                /\ metrics.p95_score >= FastPathScore
        THEN [ok |-> TRUE, reason |-> "fast_path", elevated |-> TRUE,
              consecutive |-> consecutive_elevations[i]]
        ELSE IF /\ metrics.witness_count >= QuorumThreshold
                /\ MeanAtLeast(metrics, NodeScoreThreshold)
        THEN IF consecutive_elevations[i] + 1 >= 2
             THEN [ok |-> TRUE, reason |-> "hysteresis", elevated |-> TRUE,
                   consecutive |-> consecutive_elevations[i] + 1]
             ELSE [ok |-> FALSE, reason |-> "building",
                   elevated |-> elevated[i],
                   consecutive |-> consecutive_elevations[i] + 1]
        ELSE [ok |-> FALSE, reason |-> "reset_hysteresis",
              elevated |-> elevated[i], consecutive |-> 0]

\* Lines 267 and 352: the names of the two artifacts.
BgArtifactName(run_id) ==
    IF run_id # "" /\ run_id # "none" THEN "aswarm-elevated-" \o run_id
    ELSE "aswarm-elevated"
FastpathArtifactName(run_id) ==
    IF run_id # "" THEN "aswarm-elevated-fastpath-" \o run_id
    ELSE "aswarm-elevated-fastpath"

\* The thread started for one decision: its target and the ConfigMap it
\* will ask the API server to create, data being the document under
\* "elevation.json".
WriterThread(i, target, run_id, data) ==
    [inst |-> i, target |-> target, run_id |-> run_id, data |-> data,
     name |-> IF target = "bg" THEN BgArtifactName(run_id)
              ELSE FastpathArtifactName(run_id),
     labels |-> IF target = "bg"
                THEN [type |-> "elevation", run_id |-> run_id,
                      source |-> "none"]
                ELSE [type |-> "elevation", run_id |-> run_id,
                      source |-> "fastpath"]]

\* The distinct witness nodes of instance i's window, with one more node
\* counted when a fast-path datagram of that node is the trigger.
WindowWitnesses(i, extra) ==
    LET ws == WindowSignals(signals[i], WatchRunId, agg_now)
    IN  Cardinality({ws[k].node : k \in 1..Len(ws)} \cup extra)

InitAgg ==
    /\ signals = [i \in Instances |-> <<>>]
    /\ last_elevation = [i \in Instances |-> 0]
    /\ consecutive_elevations = [i \in Instances |-> 0]
    /\ elevated = [i \in Instances |-> FALSE]
    /\ writer_threads = EmptyBag
    /\ configmaps = <<>>
    /\ api_log = EmptyBag
    /\ decision_log = EmptyBag
    /\ writer_failures = 0
    /\ writer_raised = 0
    /\ agg_now = AggStartMs
    /\ lease_stream = <<>>
    /\ watch_pos = [i \in Instances |-> 0]
    /\ fastpath_calls = 0

-----------------------------------------------------------------------------
(* Actions of the aggregator *)

\* A sentinel renews its lease: every watcher will see a MODIFIED event
\* whose renew_time is the time of the update.
PublishLeaseFrom(scores, run_ids, max_signals) ==
    /\ Len(lease_stream) + fastpath_calls < max_signals
    /\ \E node \in Nodes, score \in scores, run_id \in run_ids :
         lease_stream' = Append(lease_stream,
                                LeaseSignal(node, score, agg_now, run_id))
    /\ UNCHANGED <<signals, last_elevation, consecutive_elevations, elevated,
                   writer_threads, configmaps, api_log, decision_log,
                   writer_failures, writer_raised, agg_now, watch_pos,
                   fastpath_calls, rxVars, catVars, extVars>>

PublishLease == PublishLeaseFrom(Scores, {WatchRunId}, MaxSignals)

\* watch_leases lines 396-430, one ADDED/MODIFIED event of the stream.
watch_leases(i) ==
    /\ watch_pos[i] < Len(lease_stream)
    /\ watch_pos' = [watch_pos EXCEPT ![i] = @ + 1]
    /\ LET signal  == lease_stream[watch_pos[i] + 1]
             app     == Append(signals[i], signal)
             sigs    == IF Len(app) > SignalsCap
                        THEN SubSeq(app, Len(app) - SignalsKeep + 1, Len(app))
                        ELSE app
             metrics == compute_sliding_window_quorum(sigs, WatchRunId, agg_now)
             d       == should_elevate(metrics, i, agg_now)
         IN  /\ signals' = [signals EXCEPT ![i] = sigs]
             /\ elevated' = [elevated EXCEPT ![i] = d.elevated]
             /\ consecutive_elevations' =
                   [consecutive_elevations EXCEPT ![i] = d.consecutive]
             /\ IF d.ok
                THEN /\ last_elevation' = [last_elevation EXCEPT ![i] = agg_now]
                     /\ writer_threads' = writer_threads (+)
                           SetToBag({WriterThread(i, "bg", WatchRunId,
                               BgElevationData(metrics, WatchRunId, agg_now,
                                               d.reason))})
                     /\ decision_log' = decision_log (+)
                           SetToBag({[inst |-> i, path |-> "lease",
                                      run_id |-> WatchRunId,
                                      reason |-> d.reason,
                                      witnesses |-> metrics.witness_count]})
                ELSE UNCHANGED <<last_elevation, writer_threads, decision_log>>
    /\ UNCHANGED <<configmaps, api_log, writer_failures, writer_raised,
                   agg_now, lease_stream, fastpath_calls, rxVars, catVars, extVars>>

\* handle_fastpath_signal, called by a listener worker with the payload of
\* an accepted datagram.
FastpathSignalFrom(i, scores, run_ids, max_signals) ==
    /\ Len(lease_stream) + fastpath_calls < max_signals
    /\ fastpath_calls' = fastpath_calls + 1
    /\ \E node \in Nodes, score \in scores, run_id \in run_ids,
          witness_count \in ReportedWitnessCounts :
         LET elevation_data == ElevationData(node, score, run_id,
                                             witness_count)
         IN  IF elevation_data.anomaly.score < FastPathScore
             THEN UNCHANGED <<writer_threads, last_elevation, elevated,
                              decision_log>>
             ELSE /\ writer_threads' = writer_threads (+)
                        SetToBag({WriterThread(i, "fastpath",
                                               elevation_data.run_id,
                                               ElevationEvent(elevation_data,
                                                              agg_now))})
                  /\ last_elevation' = [last_elevation EXCEPT ![i] = agg_now]
                  /\ elevated' = [elevated EXCEPT ![i] = TRUE]
                  /\ decision_log' = decision_log (+)
                        SetToBag({[inst |-> i, path |-> "fastpath",
                                   run_id |-> elevation_data.run_id,
                                   reason |-> "fastpath",
                                   witnesses |->
                                      WindowWitnesses(i, {elevation_data.node_id})]})
    /\ UNCHANGED <<signals, consecutive_elevations, configmaps, api_log,
                   writer_failures, writer_raised, agg_now, lease_stream,
                   watch_pos, rxVars, catVars, extVars>>

handle_fastpath_signal(i) ==
    FastpathSignalFrom(i, Scores, {WatchRunId}, MaxSignals)

\* create_elevation_artifact_bg without the "409" case of its except
\* clause: every failed create is reported.
create_elevation_artifact_bg_NoConflictCase(answer) ==
    IF answer.status = 201 THEN "created" ELSE "reported"

\* create_elevation_artifact_bg lines 295-301: what the writer does with
\* the API server's answer.
create_elevation_artifact_bg(answer) ==
    IF answer.status = 201 THEN "created"
    ELSE IF answer.text409 THEN "pass"
    ELSE "reported"

\* create_fastpath_elevation_artifact lines 370-377; an exception that is
\* no ApiException leaves the thread.
create_fastpath_elevation_artifact(answer) ==
    IF answer.status = 201 THEN "created"
    ELSE IF answer.status = 0 THEN "raised"
    ELSE IF answer.status = 409 THEN "pass"
    ELSE "reported"

\* create_namespaced_config_map: a create of an existing name is answered
\* 409, and any call may fail.
ApiAnswers(name) ==
    Failures \cup (IF name \in DOMAIN configmaps THEN {Conflict} ELSE {Created})

\* One artifact thread runs: a single create call and the handling of its
\* answer.
RunWriter(t) ==
    /\ BagIn(t, writer_threads)
    /\ writer_threads' = writer_threads (-) SetToBag({t})
    /\ \E answer \in ApiAnswers(t.name) :
         LET outcome == IF t.target = "bg"
                        THEN create_elevation_artifact_bg(answer)
                        ELSE create_fastpath_elevation_artifact(answer)
         IN  /\ api_log' = api_log (+)
                   SetToBag({[inst |-> t.inst, target |-> t.target,
                              run_id |-> t.run_id, name |-> t.name,
                              status |-> answer.status]})
             /\ configmaps' = IF answer = Created
                              THEN configmaps @@
                                   (t.name :> [type |-> t.labels.type,
                                               run_id |-> t.labels.run_id,
                                               source |-> t.labels.source,
                                               data |-> t.data])
                              ELSE configmaps
             /\ writer_failures' = IF outcome = "reported"
                                   THEN writer_failures + 1 ELSE writer_failures
             /\ writer_raised' = IF outcome = "raised"
                                 THEN writer_raised + 1 ELSE writer_raised
    /\ UNCHANGED <<signals, last_elevation, consecutive_elevations, elevated,
                   decision_log, agg_now, lease_stream, watch_pos,
                   fastpath_calls, rxVars, catVars, extVars>>

\* The aggregator's clock advances (once in a run, past the window).
AggTick ==
    /\ agg_now = AggStartMs
    /\ agg_now' = agg_now + AggTickMs
    /\ UNCHANGED <<signals, last_elevation, consecutive_elevations, elevated,
                   writer_threads, configmaps, api_log, decision_log,
                   writer_failures, writer_raised, lease_stream, watch_pos,
                   fastpath_calls, rxVars, catVars, extVars>>

\* The aggregator's clock advances by the backoff period.
BackoffPasses ==
    /\ agg_now + ElevationBackoffMs <= AggStartMs + MaxBackoffs * ElevationBackoffMs
    /\ agg_now' = agg_now + ElevationBackoffMs
    /\ UNCHANGED <<signals, last_elevation, consecutive_elevations, elevated,
                   writer_threads, configmaps, api_log, decision_log,
                   writer_failures, writer_raised, lease_stream, watch_pos,
                   fastpath_calls, rxVars, catVars, extVars>>

NextAgg ==
    \/ PublishLease
    \/ \E i \in Instances : watch_leases(i)
    \/ \E i \in Instances : handle_fastpath_signal(i)
    \/ \E t \in BagToSet(writer_threads) : RunWriter(t)
    \/ AggTick

-----------------------------------------------------------------------------
(* MicroActCatalog (microact_catalog_v2.py).  Times are in seconds.  A      *)
(* parameter value carries its Python type; a string that is split on "/"  *)
(* is the sequence of its parts, so a revert handle is a sequence of parts. *)

MaxExecutes == 2             \* calls of execute in a run
MaxCatTime == 2              \* last clock value of a run

\* The last second datetime.fromtimestamp accepts (the end of year 9999), on
\* the scale of the clock of the model.
MaxTimestamp == 100000

MaxRings == {2, 3}           \* values of ASWARM_MAX_RING the runs start with

VStr(s) == [t |-> "str", s |-> s, n |-> 0]
VInt(n) == [t |-> "int", s |-> "", n |-> n]

SlashSelector == "app.kubernetes.io/name=web"

\* str.split("/") of the strings of the model.
Split(s) == IF s = SlashSelector THEN <<"app.kubernetes.io", "name=web">>
            ELSE <<s>>

\* str.strip() of the strings of the model.
Strip(s) == IF s \in {"", " "} THEN "" ELSE s

\* f"{value}"
Format(v) == IF v.t = "int" THEN <<ToString(v.n)>> ELSE Split(v.s)

\* _register_actions: id -> ring, default TTL, required parameters.
actions ==
    [log_anomaly |->
        [ring |-> 1, ttl_seconds |-> 0,
         requires_params |-> {"asset_id", "anomaly_type", "score"}],
     networkpolicy_isolate |->
        [ring |-> 2, ttl_seconds |-> 300,
         requires_params |-> {"namespace", "selector"}],
     egress_rate_limit |->
        [ring |-> 2, ttl_seconds |-> 300,
         requires_params |-> {"host", "rate_mbps"}],
     dns_sinkhole |->
        [ring |-> 2, ttl_seconds |-> 600,
         requires_params |-> {"namespace", "selector"}],
     process_freeze |->
        [ring |-> 3, ttl_seconds |-> 120,
         requires_params |-> {"host", "pid"}],
     token_revoke |->
        [ring |-> 3, ttl_seconds |-> 3600,
         requires_params |-> {"provider", "user_id"}],
     container_pause |->
        [ring |-> 3, ttl_seconds |-> 180,
         requires_params |-> {"namespace", "pod", "container"}]]

\* The calls of execute the callers of the model make.
Requests ==
    { [action_id |-> "networkpolicy_isolate",
       params |-> [namespace |-> VStr("default"), selector |-> VStr("app=test"),
                   ttl_seconds |-> VInt(2)]],
      [action_id |-> "networkpolicy_isolate",
       params |-> [namespace |-> VStr("default")]],
      [action_id |-> "networkpolicy_isolate",
       params |-> [namespace |-> VStr("default"), selector |-> VInt(5)]],
      [action_id |-> "egress_rate_limit",
       params |-> [host |-> VStr("h1"), rate_mbps |-> VInt(10)]],
      [action_id |-> "egress_rate_limit",
       params |-> [host |-> VStr("h1"), rate_mbps |-> VInt(10),
                   ttl_seconds |-> VInt(1)]],
      [action_id |-> "egress_rate_limit",
       params |-> [host |-> VStr("h1"), rate_mbps |-> VInt(0)]],
      [action_id |-> "egress_rate_limit",
       params |-> [host |-> VStr("h2"), rate_mbps |-> VInt(10),
                   ttl_seconds |-> VInt(MaxTimestamp + 1)]],
      [action_id |-> "egress_rate_limit",
       params |-> [host |-> VStr("h1"), rate_mbps |-> VStr("fast")]],
      [action_id |-> "dns_sinkhole",
       params |-> [namespace |-> VStr("default"),
                   selector |-> VStr(SlashSelector),
                   ttl_seconds |-> VInt(1)]],
      [action_id |-> "container_pause",
       params |-> [namespace |-> VStr("default"), pod |-> VStr("test-pod"),
                   container |-> VStr("main")]],
      [action_id |-> "container_pause",
       params |-> [namespace |-> VStr("default")]],
      [action_id |-> "log_anomaly",
       params |-> [asset_id |-> VStr("a1"), anomaly_type |-> VStr("scan"),
                   score |-> VInt(1)]],
      [action_id |-> "token_revoke",
       params |-> [provider |-> VStr("okta"), user_id |-> VStr("u1")]],
      [action_id |-> "process_freeze",
       params |-> [host |-> VStr("h1"), pid |-> VInt(42)]],
      [action_id |-> "reboot", params |-> [host |-> VStr("h1")]] }

NoHandle == <<>>

\* proof=None of an ActuationResult built without one.
NoProof == [present |-> FALSE, dry_run |-> FALSE]

\* ActuationResult, with what the call did besides: the exception it
\* raised, the external commands it ran, whether it scheduled a revert.
Result(success, message) ==
    [success |-> success, message |-> message, revert_handle |-> NoHandle,
     applied_at |-> -1, expires_at |-> -1, proof |-> NoProof,
     raised |-> "none", commands |-> 0, scheduled |-> FALSE]

Raised(exception) ==
    [success |-> FALSE, message |-> "", revert_handle |-> NoHandle,
     applied_at |-> -1, expires_at |-> -1, proof |-> NoProof,
     raised |-> exception, commands |-> 0, scheduled |-> FALSE]

\* _run that runs the command whatever DRY_RUN says.
run_IgnoringDryRun(cmd_ok) == [ok |-> cmd_ok, ran |-> 1]

\* _run, lines 62-76: under DRY_RUN the command is logged and reported a
\* success; otherwise subprocess.run runs it, cmd_ok being its outcome.
run(cmd_ok) ==
    IF DRY_RUN THEN [ok |-> TRUE, ran |-> 0]
    ELSE [ok |-> cmd_ok, ran |-> 1]

\* _compute_proof, lines 78-89: the dry_run flag of the proof.
compute_proof == [present |-> TRUE, dry_run |-> DRY_RUN]

\* params.get(name, default)
Get(params, name, default) ==
    IF name \in DOMAIN params THEN params[name] ELSE default

\* active_ttls is a dict in insertion order: a sequence of entries.
TtlHandles(table) == {table[k].handle : k \in 1..Len(table)}

\* self.active_ttls[handle] = {...}
TtlSet(table, entry) ==
    IF entry.handle \in TtlHandles(table)
    THEN [k \in 1..Len(table) |->
             IF table[k].handle = entry.handle THEN entry ELSE table[k]]
    ELSE Append(table, entry)

\* _schedule_ttl_revert; ttl_seconds is an int here.
schedule_ttl_revert(table, action_id, handle, ttl_seconds, now) ==
    IF ttl_seconds <= 0 THEN table
    ELSE TtlSet(table, [handle |-> handle, action_id |-> action_id,
                        expire_mono |-> now + ttl_seconds,
                        applied_mono |-> now])

\* The revert handle a primitive builds from its natural keys.
RevertHandle(action_id, params, now) ==
    CASE action_id = "networkpolicy_isolate" ->
            Format(params["namespace"]) \o <<"aswarm-isolate-" \o ToString(now)>>
      [] action_id = "egress_rate_limit" ->
            Format(params["host"]) \o
            Format(Get(params, "interface", VStr("eth0"))) \o
            Format(params["rate_mbps"])
      [] action_id = "token_revoke" ->
            Format(params["provider"]) \o Format(params["user_id"]) \o
            Format(Get(params, "scope", VStr("all")))
      [] action_id = "dns_sinkhole" ->
            Format(params["namespace"]) \o Format(params["selector"]) \o
            Format(Get(params, "sinkhole_ip", VStr("10.0.0.254")))
      [] action_id = "process_freeze" ->
            Format(params["host"]) \o Format(params["pid"])
      [] action_id = "container_pause" ->
            Format(params["namespace"]) \o Format(params["pod"]) \o
            Format(params["container"])
      [] OTHER -> NoHandle

\* The _execute_* methods, inside the try block of execute (lines 252-277):
\* an exception of a primitive becomes an "Execution failed" result.
\* kubectl_ok is the outcome of "kubectl apply" when it is run.  A TTL that
\* is not a number raises in _schedule_ttl_revert, before the table is
\* written; a TTL past the range of datetime raises in the construction of
\* the result (expires_at), after _schedule_ttl_revert has returned.
Primitive(action_id, params, ttl, table, now, kubectl_ok) ==
    LET apply   == run(kubectl_ok)
        ran     == IF action_id = "networkpolicy_isolate"
                   THEN apply.ran ELSE 0
        applied == IF action_id = "networkpolicy_isolate"
                   THEN apply.ok ELSE DRY_RUN
        failed(message) ==
            [res |-> [Result(FALSE, message) EXCEPT !.commands = ran],
             table |-> table]
    IN  IF action_id = "log_anomaly"
        THEN IF params["score"].t # "int" THEN failed("execution_failed")
             ELSE [res |-> [Result(TRUE, "logged") EXCEPT
                              !.applied_at = now,
                              !.proof = compute_proof],
                   table |-> table]
        ELSE IF ~applied
        THEN failed(IF action_id = "networkpolicy_isolate"
                    THEN "apply_failed" ELSE "not_implemented")
        ELSE IF ttl.t # "int" THEN failed("execution_failed")
        ELSE IF now + ttl.n > MaxTimestamp
        THEN [res |-> [Result(FALSE, "execution_failed") EXCEPT
                          !.commands = ran,
                          !.scheduled = ttl.n > 0],
              table |-> schedule_ttl_revert(
                            table, action_id,
                            RevertHandle(action_id, params, now), ttl.n, now)]
        ELSE LET handle == RevertHandle(action_id, params, now)
             IN  [res |-> [Result(TRUE, "applied") EXCEPT
                              !.revert_handle = handle,
                              !.applied_at = now,
                              !.expires_at = now + ttl.n,
                              !.proof = compute_proof,
                              !.commands = ran,
                              !.scheduled = ttl.n > 0],
                  table |-> schedule_ttl_revert(table, action_id, handle,
                                                ttl.n, now)]

\* Line 203 with >= for >.
ExceedsMaxRing_Inclusive(ring) == ring >= MAX_RING

\* Line 203: action.ring.value > MAX_RING
ExceedsMaxRing(ring) == ring > MAX_RING

\* int(params["pid"]) succeeds
IntLike(v) == v.t = "int" \/ (v.t = "str" /\ v.s \in {"42"})

\* execute, lines 193-277: the result and the TTL table it leaves.
execute(action_id, params, table, now, kubectl_ok) ==
    LET done(res) == [res |-> res, table |-> table]
    IN  IF action_id \notin DOMAIN actions
        THEN done(Result(FALSE, "unknown_action"))
        ELSE IF ExceedsMaxRing(actions[action_id].ring)
        THEN done(Result(FALSE, "exceeds_max_ring"))
        ELSE IF actions[action_id].requires_params \ DOMAIN params # {}
        THEN done(Result(FALSE, "missing_params"))
        ELSE IF "rate_mbps" \in DOMAIN params /\ params["rate_mbps"].t # "int"
        THEN done(Raised("TypeError"))
        ELSE IF "rate_mbps" \in DOMAIN params /\ params["rate_mbps"].n <= 0
        THEN done(Result(FALSE, "invalid_rate_mbps"))
        ELSE IF "selector" \in DOMAIN params /\ params["selector"].t # "str"
        THEN done(Raised("AttributeError"))
        ELSE IF "selector" \in DOMAIN params /\ Strip(params["selector"].s) = ""
        THEN done(Result(FALSE, "invalid_selector"))
        ELSE IF "pid" \in DOMAIN params /\ ~IntLike(params["pid"])
        THEN done(Result(FALSE, "invalid_pid"))
        ELSE Primitive(action_id, params,
                       Get(params, "ttl_seconds",
                           VInt(actions[action_id].ttl_seconds)),
                       table, now, kubectl_ok)

\* The number of parts handle.split("/") must have for the unpacking of
\* _revert_action; networkpolicy_isolate splits once and needs two.
RevertRaises(action_id, handle) ==
    CASE action_id = "networkpolicy_isolate" -> Len(handle) < 2
      [] action_id \in {"egress_rate_limit", "token_revoke", "dns_sinkhole",
                        "container_pause"} -> Len(handle) # 3
      [] action_id = "process_freeze" -> Len(handle) # 2
      [] OTHER -> FALSE

\* Before the module is imported; DRY_RUN and MAX_RING hold the defaults
\* of lines 28-29.
InitCat ==
    /\ cat_started = FALSE
    /\ DRY_RUN = TRUE
    /\ MAX_RING = 3
    /\ active_ttls = <<>>
    /\ cat_now = 0
    /\ results = <<>>
    /\ mon_pc = "scan"
    /\ mon_expired = <<>>
    /\ mon_wake = 0
    /\ last_scan = -1
    /\ reverted = <<>>
    /\ commands_run = 0
    /\ certificates = {}

-----------------------------------------------------------------------------
(* Actions of the catalog *)

\* Import of the module and MicroActCatalog(): DRY_RUN and MAX_RING are
\* read from the environment and the monitor thread starts.
StartCatalog ==
    /\ ~cat_started
    /\ cat_started' = TRUE
    /\ DRY_RUN' \in BOOLEAN
    /\ MAX_RING' \in MaxRings
    /\ UNCHANGED <<active_ttls, cat_now, results, mon_pc, mon_expired,
                   mon_wake, last_scan, reverted, commands_run, certificates,
                   rxVars, aggVars, extVars>>

\* One call of execute.
CallExecute ==
    /\ cat_started
    /\ Len(results) < MaxExecutes
    /\ \E req \in Requests, kubectl_ok \in BOOLEAN :
         LET out == execute(req.action_id, req.params, active_ttls, cat_now,
                            kubectl_ok)
         IN  /\ active_ttls' = out.table
             /\ commands_run' = commands_run + out.res.commands
             /\ results' = Append(results,
                                  [request |-> req, result |-> out.res])
    /\ UNCHANGED <<cat_started, DRY_RUN, MAX_RING, cat_now, mon_pc,
                   mon_expired, mon_wake, last_scan, reverted, certificates,
                   rxVars, aggVars, extVars>>

\* monitor_loop lines 578-587: the expired entries leave the table in one
\* critical section.
MonitorScan ==
    /\ cat_started
    /\ mon_pc = "scan"
    /\ cat_now >= mon_wake
    /\ LET expired == SelectSeq(active_ttls,
                                LAMBDA e : cat_now >= e.expire_mono)
       IN  /\ active_ttls' = SelectSeq(active_ttls,
                                       LAMBDA e : ~(cat_now >= e.expire_mono))
           /\ mon_expired' = expired
           /\ IF expired = <<>>
              THEN /\ mon_pc' = "scan"
                   /\ mon_wake' = cat_now + 1
              ELSE /\ mon_pc' = "revert"
                   /\ UNCHANGED mon_wake
    /\ last_scan' = cat_now
    /\ UNCHANGED <<cat_started, DRY_RUN, MAX_RING, cat_now, results, reverted,
                   commands_run, certificates, rxVars, aggVars, extVars>>

\* monitor_loop that puts an entry back into the table when kubectl could
\* not delete its policy.
MonitorRevert_RetryFailed ==
    /\ mon_pc = "revert"
    /\ LET e == Head(mon_expired)
       IN  IF RevertRaises(e.action_id, e.handle)
           THEN /\ mon_pc' = "dead"
                /\ mon_expired' = <<>>
                /\ reverted' = Append(reverted, [handle |-> e.handle,
                                                 outcome |-> "raised"])
                /\ UNCHANGED <<mon_wake, commands_run, active_ttls>>
           ELSE /\ \E kubectl_ok \in BOOLEAN :
                      LET delete == IF e.action_id = "networkpolicy_isolate"
                                    THEN run(kubectl_ok)
                                    ELSE [ok |-> TRUE, ran |-> 0]
                      IN  /\ reverted' = Append(reverted,
                                 [handle |-> e.handle,
                                  outcome |-> IF delete.ok THEN "done"
                                              ELSE "failed"])
                          /\ commands_run' = commands_run + delete.ran
                          /\ active_ttls' = IF delete.ok THEN active_ttls
                                            ELSE TtlSet(active_ttls, e)
                /\ mon_expired' = Tail(mon_expired)
                /\ IF Tail(mon_expired) = <<>>
                   THEN /\ mon_pc' = "scan"
                        /\ mon_wake' = cat_now + 1
                   ELSE UNCHANGED <<mon_pc, mon_wake>>
    /\ UNCHANGED <<cat_started, DRY_RUN, MAX_RING, cat_now,
                   results, last_scan, certificates, rxVars, aggVars, extVars>>

\* monitor_loop lines 589-593 and _revert_action, one expired entry.  An
\* exception of _revert_action ends the monitor thread.
MonitorRevert ==
    /\ mon_pc = "revert"
    /\ LET e == Head(mon_expired)
       IN  IF RevertRaises(e.action_id, e.handle)
           THEN /\ mon_pc' = "dead"
                /\ mon_expired' = <<>>
                /\ reverted' = Append(reverted, [handle |-> e.handle,
                                                 outcome |-> "raised"])
                /\ UNCHANGED <<mon_wake, commands_run>>
           ELSE /\ \E kubectl_ok \in BOOLEAN :
                      LET delete == IF e.action_id = "networkpolicy_isolate"
                                    THEN run(kubectl_ok)
                                    ELSE [ok |-> TRUE, ran |-> 0]
                      IN  /\ reverted' = Append(reverted,
                                 [handle |-> e.handle,
                                  outcome |-> IF delete.ok THEN "done"
                                              ELSE "failed"])
                          /\ commands_run' = commands_run + delete.ran
                /\ mon_expired' = Tail(mon_expired)
                /\ IF Tail(mon_expired) = <<>>
                   THEN /\ mon_pc' = "scan"
                        /\ mon_wake' = cat_now + 1
                   ELSE UNCHANGED <<mon_pc, mon_wake>>
    /\ UNCHANGED <<cat_started, DRY_RUN, MAX_RING, active_ttls, cat_now,
                   results, last_scan, certificates, rxVars, aggVars, extVars>>

\* The catalog's clock advances by one second.
CatTick ==
    /\ cat_started
    /\ cat_now < MaxCatTime
    /\ cat_now' = cat_now + 1
    /\ UNCHANGED <<cat_started, DRY_RUN, MAX_RING, active_ttls, results,
                   mon_pc, mon_expired, mon_wake, last_scan, reverted,
                   commands_run, certificates, rxVars, aggVars, extVars>>

NextCat ==
    \/ StartCatalog
    \/ CallExecute
    \/ MonitorScan
    \/ MonitorRevert
    \/ CatTick

-----------------------------------------------------------------------------
(* measure_mttr_fast.py: the action certificate of a run and its signature. *)

MaxCertRuns == 3             \* --repeat

CertUnset == "unset"         \* ACTION_CERT_DEMO_KEY is not in the environment
CertEnvKeys == {CertUnset, "K1"}
CertPods == {"anomaly-1", "anomaly-2"}
CertProbes == {1, 2}
CertFirstRunS == 100         \* wall clock of the first run, seconds
CertRunGaps == {2, 3}        \* seconds from one run to the next

\* Line 18: the timestamp to the second and the run number.
CertRunId(ts, run_num) == <<"run", ts, run_num>>

\* Lines 182-222: the fields of the artifact that differ between runs.
CertArtifact(run_id, pod, probe_attempts) ==
    [certificate_id |-> run_id, run_id |-> run_id, asset_id |-> pod,
     outcome |-> [status |-> "contained", probe_attempts |-> probe_attempts]]

\* json.dumps(artifact, indent=...): the text of the document.
CertJsonDumps(artifact, indent) == [indent |-> indent, doc |-> artifact]

\* str.encode() and Path.write_text: the bytes of a text.
CertEncode(text) == <<"utf-8", text>>

\* Line 227: out_dir / f"{run_id}.json"
CertPath(run_id) == <<"ActionCertificates", run_id, ".json">>

\* bytes.hex() of a digest.
HexDigest(digest) == <<"hex", digest>>

\* Line 231: os.environ.get("ACTION_CERT_DEMO_KEY", "aswarm-demo-key").encode()
CertKey(env) ==
    CertEncode(IF env = CertUnset THEN "aswarm-demo-key" ELSE env)

\* CertSignature taken over a compact re-serialisation of the document
\* and not over the bytes of the file.
CertSignature_Reserialised(key, path, files) ==
    HexDigest(HmacSha256(key, CertEncode([files[path][2] EXCEPT !.indent = 0])))

\* Line 232: hmac.new(key, cert_path.read_bytes(), sha256).hexdigest()
CertSignature(key, path, files) ==
    HexDigest(HmacSha256(key, files[path]))

InitCert ==
    /\ ACTION_CERT_DEMO_KEY = CertUnset
    /\ cert_files = <<>>
    /\ cert_writes = <<>>
    /\ run_results = <<>>

\* Lines 181-243, one run of main: the certificate is written, read back
\* and signed, and the run_result is printed.
EmitCertificate ==
    /\ Len(run_results) < MaxCertRuns
    /\ \E pod \in CertPods, probes \in CertProbes, gap \in CertRunGaps :
         LET run_num  == Len(run_results)
             ts       == IF run_num = 0 THEN CertFirstRunS
                         ELSE run_results[run_num].run_id[2] + gap
             run_id   == CertRunId(ts, run_num)
             artifact == CertArtifact(run_id, pod, probes)
             path     == CertPath(run_id)
             written  == CertEncode(CertJsonDumps(artifact, 2))
             files    == [f \in DOMAIN cert_files \cup {path} |->
                             IF f = path THEN written ELSE cert_files[f]]
             key      == CertKey(ACTION_CERT_DEMO_KEY)
         IN  /\ cert_files' = files
             /\ cert_writes' = Append(cert_writes,
                                      [path |-> path, bytes |-> written])
             /\ run_results' = Append(run_results,
                    [run |-> run_num + 1, run_id |-> run_id,
                     certificate |-> path,
                     signature |-> CertSignature(key, path, files)])
    /\ UNCHANGED <<ACTION_CERT_DEMO_KEY, rxVars, aggVars, catVars, monVars,
                   sndVars, telVars>>

\* Somebody edits a certificate file after the run: the status of the
\* outcome is rewritten.
TamperedBytes(bytes) ==
    CertEncode([bytes[2] EXCEPT !.doc.outcome.status = "not_contained"])

TamperWithCertificate ==
    /\ \E path \in DOMAIN cert_files :
         /\ cert_files[path] # TamperedBytes(cert_files[path])
         /\ cert_files' = [cert_files EXCEPT ![path] = TamperedBytes(@)]
    /\ UNCHANGED <<ACTION_CERT_DEMO_KEY, cert_writes, run_results, rxVars,
                   aggVars, catVars, monVars, sndVars, telVars>>

NextCert ==
    \/ EmitCertificate
    \/ TamperWithCertificate

-----------------------------------------------------------------------------
(* Specifications *)

\* The monitor's fields after the constructors of Stats and the listener.
InitMon ==
    /\ elevation_callback = "handle_fastpath_signal"
    /\ last_degrade_check = StartMs
    /\ rate_window_start = StartMs
    /\ window_base = [received |-> 0, dropped |-> 0]

InitSnd ==
    /\ sequence = 0
    /\ sent = <<>>

-----------------------------------------------------------------------------
(* DualPathTelemetry of telemetry_v2.py, constructed with *)
(* fastpath_enabled=False; scores are in hundredths       *)

MaxTicks == 5          \* iterations of run_telemetry_loop in a run
MaxAttempts == 3
BackoffStepMs == 10

TickScores == {70, 71}

NoTick == [active |-> FALSE]
NoLease == [exists |-> FALSE]

\* Lines 215-225: the V1Lease that create_namespaced_lease stores: labels
\* and spec, no annotations.
NewLease == [exists |-> TRUE, annotations |-> <<>>]

\* Hysteresis without the previous window.
Hysteresis_NoPrev(score, prev_high) ==
    [high |-> score > 70, elevate |-> score > 70]

\* Lines 257-261: high, and elevate after two consecutive high windows.
Hysteresis(score, prev_high) ==
    [high |-> score > 70, elevate |-> score > 70 /\ prev_high]

\* Lines 173-182: the annotations of the patch (a run without run_id).
Annotations(seq, score, elevate) ==
    LET ann == ("aswarm.ai/seq" :> seq) @@ ("aswarm.ai/score" :> score)
    IN  IF elevate THEN ann @@ ("aswarm.ai/elevate" :> 1) ELSE ann

\* patch_namespaced_lease answered 200: the server merges the annotations
\* of the patch into those of the Lease.
MergePatch(l, ann) == [exists |-> TRUE, annotations |-> ann @@ l.annotations]

\* What the API server may answer to the patch and to the create.
PatchAnswers(l) ==
    IF l.exists THEN {200, 403, 409, 429, 500, 503} ELSE {404, 500}

CreateAnswers == {201, 409, 403}

InitTel ==
    /\ _prev_high = FALSE
    /\ tel_sequence = 0
    /\ tick = NoTick
    /\ lease = NoLease
    /\ lease_calls = <<>>
    /\ tel_log = <<>>

\* run_telemetry_loop lines 251-263 and update_lease lines 167-203: the
\* score of the window, the hysteresis, the sequence number and the patch,
\* up to the first API call.
TelemetryTick ==
    /\ ~tick.active
    /\ tel_sequence < MaxTicks
    /\ \E score \in TickScores :
          LET h == Hysteresis(score, _prev_high)
          IN  /\ _prev_high' = h.high
              /\ tel_sequence' = tel_sequence + 1
              /\ tick' = [active |-> TRUE, score |-> score,
                          elevate |-> h.elevate, attempt |-> 0,
                          annotations |->
                              Annotations(tel_sequence + 1, score, h.elevate)]
              /\ lease_calls' = <<>>
    /\ UNCHANGED <<lease, tel_log, rxVars, aggVars, catVars, monVars,
                   sndVars, certVars>>

\* update_lease returns (now, elevate) and the loop prints its log entry
\* (lines 212, 239, 285-295); fastpath_sender is None.
ReturnFromUpdate ==
    /\ tel_log' = Append(tel_log, [seq |-> tel_sequence, score |-> tick.score,
                                   elevate |-> tick.elevate,
                                   outcome |-> "returned"])
    /\ tick' = NoTick

\* The for loop goes to its next attempt, or ends after the third.
NextAttempt ==
    IF tick.attempt + 1 < MaxAttempts
    THEN /\ tick' = [tick EXCEPT !.attempt = tick.attempt + 1]
         /\ UNCHANGED tel_log
    ELSE ReturnFromUpdate

\* update_lease lines 205-238: one iteration of 'for attempt in range(3)'.
PatchLease ==
    /\ tick.active
    /\ \E status \in PatchAnswers(lease) :
          LET call == [verb |-> "patch", attempt |-> tick.attempt,
                       annotations |-> tick.annotations, status |-> status,
                       slept |-> 0]
          IN  IF status = 200
              THEN /\ lease' = MergePatch(lease, tick.annotations)
                   /\ lease_calls' = Append(lease_calls, call)
                   /\ ReturnFromUpdate
              ELSE IF status = 404
              THEN \E created \in CreateAnswers :
                      /\ lease_calls' = lease_calls \o
                            <<call, [verb |-> "create",
                                     attempt |-> tick.attempt,
                                     annotations |-> <<>>,
                                     status |-> created, slept |-> 0]>>
                      /\ IF created \in {201, 409}
                         THEN /\ lease' = NewLease
                              /\ NextAttempt
                         ELSE /\ UNCHANGED lease
                              /\ ReturnFromUpdate
              ELSE IF status \in {409, 429, 500}
              THEN /\ lease_calls' = Append(lease_calls,
                          [call EXCEPT !.slept =
                               BackoffStepMs * (tick.attempt + 1)])
                   /\ UNCHANGED lease
                   /\ NextAttempt
              ELSE /\ lease_calls' = Append(lease_calls, call)
                   /\ UNCHANGED lease
                   /\ ReturnFromUpdate
    /\ UNCHANGED <<_prev_high, tel_sequence, rxVars, aggVars, catVars,
                   monVars, sndVars, certVars>>

Init == InitRx /\ InitAgg /\ InitCat /\ InitMon /\ InitSnd /\ InitTel /\ InitCert

InitCertRuns ==
    /\ InitRx /\ InitAgg /\ InitCat /\ InitMon /\ InitSnd /\ InitTel
    /\ ACTION_CERT_DEMO_KEY \in CertEnvKeys
    /\ cert_files = <<>>
    /\ cert_writes = <<>>
    /\ run_results = <<>>

-----------------------------------------------------------------------------
(* fast_path_v4.py: FastPathSender.send_elevation under its payload budget. *)

MaxSends == 2                \* calls of send_elevation in a run

SenderNode == "node-a"       \* socket.gethostname() and NODE_NAME
SenderKeyId == 1             \* key_id of the constructor
SenderKey == "k1"            \* _load_key(shared_key, key_id)
SenderNonces == {7}          \* secrets.randbits(32) ^ (seq16 | seq32 << 16)
RunIds == {"", "run1"}       \* run_id of a call; "" is falsy, like None

\* Lines 94-95: the first four bytes of sha256(node_name), big-endian.
NodeSrcId(node_name) == CASE node_name = "node-a" -> 1
                          [] OTHER -> 2

\* Line 105: MAX_PACKET_SIZE - header_size - HMAC_SIZE
payload_budget == MAX_PACKET_SIZE - HEADER_SIZE - HMAC_SIZE

\* The number of characters of str(n), n >= 0.
RECURSIVE Digits(_)
Digits(n) == IF n < 10 THEN 1 ELSE 1 + Digits(n \div 10)

\* anomaly_data.get(key, default)
GetOr(d, key, default) == IF DictHas(d, key) THEN DictGet(d, key) ELSE default

\* Lines 189-202: the base payload.
BasePayloadDict(anomaly_data, run_id, seq32, now) ==
    JDict(<<Item("node_id", JStr(SenderNode, Len(SenderNode))),
            Item("wall_ts", JIso(now)),
            Item("sequence32", JNum(seq32, Digits(seq32))),
            Item("anomaly", JDict(
                <<Item("score", GetOr(anomaly_data, "score", JNum(0, 1))),
                  Item("witness_count",
                       GetOr(anomaly_data, "witness_count", JNum(0, 1))),
                  Item("selector",
                       GetOr(anomaly_data, "selector", JStr("", 0)))>>))>>
          \o (IF run_id # "" THEN <<Item("run_id", JStr(run_id, Len(run_id)))>>
              ELSE <<>>))

optional_anomaly == <<"detection_window_ms", "event_type">>
optional_meta == <<"pod_ips", "extra_meta">>

\* The first loop with test_dict a deep copy of payload_dict: a field that
\* does not fit leaves payload_dict['anomaly'] as it was.
RECURSIVE AnomalyLoop_DeepCopy(_, _, _)
AnomalyLoop_DeepCopy(st, fields, anomaly_data) ==
    IF fields = <<>> THEN st
    ELSE IF ~DictHas(anomaly_data, Head(fields))
    THEN AnomalyLoop_DeepCopy(st, Tail(fields), anomaly_data)
    ELSE LET test_dict ==
                 DictSet(st.payload_dict, "anomaly",
                         DictSet(DictGet(st.payload_dict, "anomaly"),
                                 Head(fields),
                                 DictGet(anomaly_data, Head(fields))))
             test_payload == json_dumps(test_dict)
         IN  IF test_payload.nbytes <= payload_budget
             THEN AnomalyLoop_DeepCopy(
                      [payload_dict |-> test_dict, payload |-> test_payload],
                      Tail(fields), anomaly_data)
             ELSE st

\* Lines 215-229: the optional anomaly fields.  test_dict is a shallow copy
\* of payload_dict, so test_dict['anomaly'] is payload_dict['anomaly']: the
\* field is in payload_dict as soon as it is tried, whether or not the
\* encoding fits; payload is replaced only when it fits, and the first field
\* that does not fit ends the loop.
RECURSIVE AnomalyLoop(_, _, _)
AnomalyLoop(st, fields, anomaly_data) ==
    IF fields = <<>> THEN st
    ELSE IF ~DictHas(anomaly_data, Head(fields))
    THEN AnomalyLoop(st, Tail(fields), anomaly_data)
    ELSE LET test_dict ==
                 DictSet(st.payload_dict, "anomaly",
                         DictSet(DictGet(st.payload_dict, "anomaly"),
                                 Head(fields),
                                 DictGet(anomaly_data, Head(fields))))
             test_payload == json_dumps(test_dict)
         IN  IF test_payload.nbytes <= payload_budget
             THEN AnomalyLoop(
                      [payload_dict |-> test_dict, payload |-> test_payload],
                      Tail(fields), anomaly_data)
             ELSE [payload_dict |-> test_dict, payload |-> st.payload]

\* Lines 231-245: the optional top-level fields.
RECURSIVE MetaLoop(_, _, _)
MetaLoop(st, fields, anomaly_data) ==
    IF fields = <<>> THEN st
    ELSE IF ~DictHas(anomaly_data, Head(fields))
    THEN MetaLoop(st, Tail(fields), anomaly_data)
    ELSE LET test_dict == DictSet(st.payload_dict, Head(fields),
                                  DictGet(anomaly_data, Head(fields)))
             test_payload == json_dumps(test_dict)
         IN  IF test_payload.nbytes <= payload_budget
             THEN MetaLoop(
                      [payload_dict |-> test_dict, payload |-> test_payload],
                      Tail(fields), anomaly_data)
             ELSE st

\* Lines 189-245: the payload send_elevation transmits, or the ValueError
\* of line 209.
BuildPayload(anomaly_data, run_id, seq32, now) ==
    LET payload_dict == BasePayloadDict(anomaly_data, run_id, seq32, now)
        payload == json_dumps(payload_dict)
    IN  IF payload.nbytes > payload_budget
        THEN [raised |-> TRUE, payload_dict |-> payload_dict,
              payload |-> payload]
        ELSE LET st == MetaLoop(
                           AnomalyLoop([payload_dict |-> payload_dict,
                                        payload |-> payload],
                                       optional_anomaly, anomaly_data),
                           optional_meta, anomaly_data)
             IN  [raised |-> FALSE, payload_dict |-> st.payload_dict,
                  payload |-> st.payload]

\* Detections handed to send_elevation.  The selector of a detection is as
\* long as leaves the base payload `slack` bytes under the budget.
Detection(sel_width, optional) ==
    JDict(<<Item("score", JNum(95, 4)), Item("witness_count", JNum(4, 1)),
            Item("selector", JStr("app=anomaly", sel_width))>> \o optional)

SelectorFill(run_id, seq32, now, slack) ==
    payload_budget - slack
      - JsonLen(BasePayloadDict(Detection(0, <<>>), run_id, seq32, now))

Window5s == Item("detection_window_ms", JNum(5000, 4))
EventShort == Item("event_type", JStr("scan", 4))
EventLong == Item("event_type", JStr("lateral-movement", 16))
PodIps == Item("pod_ips", JList(<<"10.1.0.5">>, 10))
PodIpsLong == Item("pod_ips", JList(<<"10.1.0.5", "10.1.0.6">>, 80))
ExtraMeta == Item("extra_meta", JDict(<<Item("zone", JStr("a", 1))>>))

\* A short detection without and with every optional field.
PlainDetections == {Detection(11, <<>>),
                    Detection(11, <<Window5s, EventShort, PodIps, ExtraMeta>>)}

\* Detections at the budget: the base payload exactly at it and one byte
\* over; an event_type that does not fit before a pod_ips that would; a
\* pod_ips that does not fit before an extra_meta that would.
BudgetDetections(run_id, seq32, now) ==
    {Detection(SelectorFill(run_id, seq32, now, 0), <<EventShort>>),
     Detection(SelectorFill(run_id, seq32, now, 0 - 1), <<>>),
     Detection(SelectorFill(run_id, seq32, now, 50),
               <<Window5s, EventLong, PodIps>>),
     Detection(SelectorFill(run_id, seq32, now, 60),
               <<PodIpsLong, ExtraMeta>>)}

\* The packet of a call that raised before building one.
NoPacket == [size |-> 0]

\* send_elevation(anomaly_data, run_id) of a sender constructed with
\* protocol_version, with the three duplicates of _send_with_dupes: the
\* packet is on the network for recvfrom to return.  The payload budget is
\* the one of version 3; the version 2 sender of the model sends payloads
\* far below both budgets.
SendElevationAs(protocol_version, anomaly_data, run_id) ==
    /\ Len(sent) < MaxSends
    /\ \E nonce32 \in SenderNonces :
         LET seq32 == sequence
             seq16 == sequence % 65536
             built == BuildPayload(anomaly_data, run_id, seq32, now_ms)
             packet == IF protocol_version = V3
                       THEN BuildPacket(NodeSrcId(SenderNode), seq16,
                                        nonce32, SenderKeyId, SenderKey,
                                        built.payload, now_ms)
                       ELSE BuildPacketV2(seq16, SenderKeyId, SenderKey,
                                          built.payload, now_ms)
         IN  /\ sequence' = sequence + 1
             /\ IF built.raised
                THEN /\ net' = net
                     /\ sent' = Append(sent,
                                   [anomaly_data |-> anomaly_data,
                                    run_id |-> run_id, seq32 |-> seq32,
                                    wall |-> now_ms, raised |-> TRUE,
                                    payload_dict |-> built.payload_dict,
                                    packet |-> NoPacket])
                ELSE /\ net' = net \cup {packet}
                     /\ sent' = Append(sent,
                                   [anomaly_data |-> anomaly_data,
                                    run_id |-> run_id, seq32 |-> seq32,
                                    wall |-> now_ms, raised |-> FALSE,
                                    payload_dict |-> built.payload_dict,
                                    packet |-> packet])
    /\ UNCHANGED <<ring_buffer, dropped_count, stats, hmac_keys,
                   src_sequences, replay_cache, replay_expire, buckets,
                   system_mode, inflight, wpc, wentry, delivered,
                   worker_errors, now_ms, reloads, recv_log, aggVars,
                   catVars, monVars, certVars, telVars>>

\* send_elevation of the default sender (protocol_version = V3).
SendElevation(anomaly_data, run_id) ==
    SendElevationAs(V3, anomaly_data, run_id)

\* Two sentinels, one constructed with protocol_version 2 and one with 3,
\* send a short detection to the same listener.
SendEitherVersion ==
    \E protocol_version \in {V2, V3} :
        SendElevationAs(protocol_version, Detection(11, <<>>), "run1")

\* A sentinel that sends any of the detections.
SendAny ==
    \E run_id \in RunIds :
        \E anomaly_data \in PlainDetections
                              \cup BudgetDetections(run_id, sequence, now_ms) :
            SendElevation(anomaly_data, run_id)

\* A sentinel whose detections all fit: one without run_id and without
\* optional fields, one with all of them, one that fills the budget to the
\* byte.
FittingCalls(seq32, now) ==
    {<<Detection(11, <<>>), "">>,
     <<Detection(11, <<Window5s, EventShort, PodIps, ExtraMeta>>), "run1">>,
     <<Detection(SelectorFill("run1", seq32, now, 0), <<>>), "run1">>}

SendFitting ==
    \E call \in FittingCalls(sequence, now_ms) :
        SendElevation(call[1], call[2])

\* The listener under the datagrams at the limits of its checks.
InitRxEdge ==
    /\ InitListener /\ net = EdgePackets
    /\ InitAgg /\ InitCat /\ InitMon /\ InitSnd /\ InitTel /\ InitCert

NextRxEdge ==
    \/ ReceiveLoop
    \/ \E w \in Workers : WorkerPop(w)
    \/ \E w \in Workers : WorkerVerify(w)
    \/ \E w \in Workers : WorkerSeqCheck(w)
    \/ \E w \in Workers : WorkerHashCheck(w)
    \/ Maintenance
    \/ Tick

SpecRxEdge == InitRxEdge /\ [][NextRxEdge]_vars

\* The listener with its monitor thread, under either callback.
InitRxMode ==
    /\ InitListener /\ net = LatePackets
    /\ elevation_callback \in Callbacks
    /\ last_degrade_check = StartMs
    /\ rate_window_start = StartMs
    /\ window_base = [received |-> 0, dropped |-> 0]
    /\ InitAgg /\ InitCat /\ InitSnd /\ InitTel /\ InitCert

NextRxMode ==
    \/ ReceiveLoop
    \/ \E w \in Workers : WorkerPop(w)
    \/ \E w \in Workers : WorkerVerify(w)
    \/ \E w \in Workers : WorkerSeqCheck(w)
    \/ \E w \in Workers : WorkerHashCheck(w)
    \/ MonitorLoop
    \/ Elapse
    \/ Maintenance

SpecRxMode == InitRxMode /\ [][NextRxMode]_vars

\* The sender alone, under detections up to and over its budget.
InitSend ==
    /\ InitListener /\ net = {}
    /\ InitAgg /\ InitCat /\ InitMon /\ InitSnd /\ InitTel /\ InitCert

NextSend ==
    \/ SendAny
    \/ Tick

SpecSend == InitSend /\ [][NextSend]_vars

\* A sender and a listener that hold the same key: the network carries
\* what the sender has sent.
NextLink ==
    \/ SendFitting
    \/ ReceiveLoop
    \/ \E w \in Workers : WorkerPop(w)
    \/ \E w \in Workers : WorkerVerify(w)
    \/ \E w \in Workers : WorkerSeqCheck(w)
    \/ \E w \in Workers : WorkerHashCheck(w)

SpecLink == InitSend /\ [][NextLink]_vars

\* A sender that has been alive for 65535 calls of send_elevation, and a
\* listener started since: the next sequence number is 0xFFFF and the one
\* after it wraps to 0.
Seq16Max == 65535

SendPlain == SendElevation(Detection(11, <<>>), "run1")

InitWrap ==
    /\ InitListener /\ net = {}
    /\ sequence = Seq16Max
    /\ sent = <<>>
    /\ InitAgg /\ InitCat /\ InitMon /\ InitTel /\ InitCert

NextWrap ==
    \/ SendPlain
    \/ ReceiveLoop
    \/ \E w \in Workers : WorkerPop(w)
    \/ \E w \in Workers : WorkerVerify(w)
    \/ \E w \in Workers : WorkerSeqCheck(w)
    \/ \E w \in Workers : WorkerHashCheck(w)

SpecWrap == InitWrap /\ [][NextWrap]_vars

\* Senders of both wire versions and a listener, all holding the same key.
NextVersions ==
    \/ SendEitherVersion
    \/ ReceiveLoop
    \/ \E w \in Workers : WorkerPop(w)
    \/ \E w \in Workers : WorkerVerify(w)
    \/ \E w \in Workers : WorkerSeqCheck(w)
    \/ \E w \in Workers : WorkerHashCheck(w)

SpecVersions == InitSend /\ [][NextVersions]_vars

\* The listener with the bucket of one source at a state around a single
\* token (in 1/1000 token): 0.95, 0.999, 1 and full; or with no bucket for
\* the source yet.
BucketStarts == {950, 999, 1000, RateCapacity * 1000}

InitRxRate ==
    /\ ring_buffer = <<>>
    /\ dropped_count = 0
    /\ stats = [c \in CounterNames |-> 0]
    /\ hmac_keys = InitialKeys
    /\ src_sequences = <<>>
    /\ replay_cache = {}
    /\ replay_expire = <<>>
    /\ \/ buckets = <<>>
       \/ \E tokens \in BucketStarts, addr \in Addrs :
             buckets = (addr[1] :> [tokens |-> tokens, last |-> StartMs])
    /\ system_mode = "normal"
    /\ inflight = 0
    /\ wpc = [w \in Workers |-> "idle"]
    /\ wentry = [w \in Workers |-> NoEntry]
    /\ delivered = EmptyBag
    /\ worker_errors = 0
    /\ now_ms = StartMs
    /\ reloads = 0
    /\ recv_log = EmptyBag
    /\ net = {PGood, PNext}
    /\ InitAgg /\ InitCat /\ InitMon /\ InitSnd /\ InitTel /\ InitCert

NextRxRate ==
    \/ ReceiveLoop
    \/ \E w \in Workers : WorkerPop(w)
    \/ \E w \in Workers : WorkerVerify(w)
    \/ \E w \in Workers : WorkerSeqCheck(w)
    \/ \E w \in Workers : WorkerHashCheck(w)
    \/ Millisecond

SpecRxRate == InitRxRate /\ [][NextRxRate]_vars

\* The listener whose per-source table is either empty or holds, for source
\* 2, the entry left by the 256 accepted sequences 40, 45..49, 51..300: a
\* full seen set, which the next accepted sequence makes
\* _process_packet prune (lines 569-571).
FullSeen == {40} \cup ((45..300) \ {50})

FullEntry == [highest |-> 300, seen |-> FullSeen]

PNew301 == BuildPacket(2, 301, 10, 1, "k1", DocA, StartMs)
PGap50  == BuildPacket(2, 50, 11, 1, "k1", DocA, StartMs)
PEdge45 == BuildPacket(2, 45, 12, 1, "k1", DocA, StartMs)

WindowPackets == {PHigh, PNew301, PGap50, PEdge45}

InitRxWindow ==
    /\ ring_buffer = <<>>
    /\ dropped_count = 0
    /\ stats = [c \in CounterNames |-> 0]
    /\ hmac_keys = InitialKeys
    /\ src_sequences \in {<<>>, (2 :> FullEntry)}
    /\ replay_cache = {}
    /\ replay_expire = <<>>
    /\ buckets = <<>>
    /\ system_mode = "normal"
    /\ inflight = 0
    /\ wpc = [w \in Workers |-> "idle"]
    /\ wentry = [w \in Workers |-> NoEntry]
    /\ delivered = EmptyBag
    /\ worker_errors = 0
    /\ now_ms = StartMs
    /\ reloads = 0
    /\ recv_log = EmptyBag
    /\ net = WindowPackets
    /\ InitAgg /\ InitCat /\ InitMon /\ InitSnd /\ InitTel /\ InitCert

NextRxWindow ==
    \/ ReceiveLoop
    \/ \E w \in Workers : WorkerPop(w)
    \/ \E w \in Workers : WorkerVerify(w)
    \/ \E w \in Workers : WorkerSeqCheck(w)
    \/ \E w \in Workers : WorkerHashCheck(w)

SpecRxWindow == InitRxWindow /\ [][NextRxWindow]_vars

\* The listener under datagrams that fail more than one check: stale and
\* naming an unknown key, stale and forged, forged only, stale only, unknown
\* key only, and an authentic one.
PStaleNoKey  == BuildPacket(1, 12, 7, 9, "k9", DocA, StartMs - StaleLimitMs - 1)
PStaleForged == BuildPacket(1, 13, 7, 1, "evil", DocA, StartMs - StaleLimitMs - 1)

OrderPackets == {PStaleNoKey, PStaleForged, PForged, PStale, PNoKey, PGood}

InitRxOrder ==
    /\ InitListener /\ net = OrderPackets
    /\ InitAgg /\ InitCat /\ InitMon /\ InitSnd /\ InitTel /\ InitCert

NextRxOrder ==
    \/ ReceiveLoop
    \/ \E w \in Workers : WorkerPop(w)
    \/ \E w \in Workers : WorkerVerify(w)
    \/ \E w \in Workers : WorkerSeqCheck(w)
    \/ \E w \in Workers : WorkerHashCheck(w)

SpecRxOrder == InitRxOrder /\ [][NextRxOrder]_vars

\* The sentinel's telemetry loop against an API server that may answer
\* every call with success or with an error.
InitTelemetry ==
    /\ InitListener /\ net = {}
    /\ InitAgg /\ InitCat /\ InitMon /\ InitSnd /\ InitTel /\ InitCert

NextTelemetry == TelemetryTick \/ PatchLease

SpecTelemetry == InitTelemetry /\ [][NextTelemetry]_vars

\* update_lease runs under the scheduler of its thread: an attempt that is
\* due is made.
FairTelemetry == SpecTelemetry /\ WF_vars(PatchLease)

\* One aggregator instance, started with --run-id r1, deciding over leases
\* of its run and fast-path datagrams of either run, with scores on both
\* sides of its thresholds, before and after a backoff period.
InitAggRules ==
    /\ InitListener /\ net = {}
    /\ InitAgg /\ InitCat /\ InitMon /\ InitSnd /\ InitTel /\ InitCert

NextAggRules ==
    \/ PublishLeaseFrom(RuleScores, {WatchRunId}, MaxRuleSignals)
    \/ watch_leases("a1")
    \/ FastpathSignalFrom("a1", {FastPathScore}, AggRunIds, MaxRuleSignals)
    \/ BackoffPasses

SpecAggRules == InitAggRules /\ [][NextAggRules]_vars

\* One aggregator instance that has handled BaseSignals lease events of
\* node n1 with score 0.75 within its window (each answered 'quorum(1<2)',
\* which changes nothing but the list), and then sees up to MoreSignals
\* further events of either node and run.
BaseStream ==
    [k \in 1..BaseSignals |-> LeaseSignal("n1", 75, AggStartMs, WatchRunId)]

InitQuorum ==
    /\ InitListener /\ net = {}
    /\ lease_stream = BaseStream
    /\ signals = [i \in Instances |-> IF i = "a1" THEN BaseStream ELSE <<>>]
    /\ watch_pos = [i \in Instances |-> IF i = "a1" THEN BaseSignals ELSE 0]
    /\ last_elevation = [i \in Instances |-> 0]
    /\ consecutive_elevations = [i \in Instances |-> 0]
    /\ elevated = [i \in Instances |-> FALSE]
    /\ writer_threads = EmptyBag
    /\ configmaps = <<>>
    /\ api_log = EmptyBag
    /\ decision_log = EmptyBag
    /\ writer_failures = 0
    /\ writer_raised = 0
    /\ agg_now = AggStartMs
    /\ fastpath_calls = 0
    /\ InitCat /\ InitMon /\ InitSnd /\ InitTel /\ InitCert

NextQuorum ==
    \/ PublishLeaseFrom(Scores, AggRunIds, BaseSignals + MoreSignals)
    \/ watch_leases("a1")

SpecQuorum == InitQuorum /\ [][NextQuorum]_vars

\* The listener under queue pressure: it was constructed IdleMs ago and has
\* received nothing yet; its monitor thread wakes every second and its
\* workers keep running.  The datagrams are fresh during the whole run.
IdleMs == 3000
PPressA == BuildPacket(1, 5, 7, 1, "k1", DocA, StartMs + 4000)
PPressB == BuildPacket(1, 6, 8, 1, "k1", DocA, StartMs + 4000)
PressurePackets == {PPressA, PPressB}

InitRxPressure ==
    /\ InitListener /\ net = PressurePackets
    /\ elevation_callback = "_default_callback"
    /\ last_degrade_check = StartMs - IdleMs
    /\ rate_window_start = StartMs - IdleMs
    /\ window_base = [received |-> 0, dropped |-> 0]
    /\ InitAgg /\ InitCat /\ InitSnd /\ InitTel /\ InitCert

\* The sentinels' datagrams arrive in bursts, at these times.
ArrivalTimes == {StartMs, StartMs + 6000}

ReceiveBurst == now_ms \in ArrivalTimes /\ ReceiveLoop

\* The listener of this run was constructed with num_workers = 1.
PressureWorkers == {"w1"}

WorkerStep ==
    \E w \in PressureWorkers :
        \/ WorkerPop(w)
        \/ WorkerVerify(w)
        \/ WorkerSeqCheck(w)
        \/ WorkerHashCheck(w)

NextRxPressure ==
    \/ ReceiveBurst
    \/ WorkerStep
    \/ MonitorSecond
    \/ Maintenance

SpecRxPressure ==
    /\ InitRxPressure /\ [][NextRxPressure]_vars
    /\ WF_vars(MonitorSecond)
    /\ WF_vars(WorkerStep)

SpecCert == InitCertRuns /\ [][NextCert]_vars

NextRx ==
    \/ ReceiveLoop
    \/ \E w \in Workers : WorkerPop(w)
    \/ \E w \in Workers : WorkerVerify(w)
    \/ \E w \in Workers : WorkerSeqCheck(w)
    \/ \E w \in Workers : WorkerHashCheck(w)
    \/ ReloadKeys
    \/ Maintenance
    \/ Tick

SpecRx == Init /\ [][NextRx]_vars

SpecAgg == Init /\ [][NextAgg]_vars

SpecCat == Init /\ [][NextCat]_vars

\* The catalog while the process lives: the clock advances, and the monitor
\* thread, which sleeps one second between its passes, runs whenever it
\* can.
FairCat ==
    /\ SpecCat
    /\ WF_vars(CatTick)
    /\ WF_vars(MonitorScan)
    /\ WF_vars(MonitorRevert)

-----------------------------------------------------------------------------
(* Properties of the listener *)

PipelineIdle == /\ ring_buffer = <<>>
                /\ \A w \in Workers : wpc[w] = "idle"

SameSrcSeqTag(a, b) == /\ a.data.src_id = b.data.src_id
                       /\ a.data.seq16 = b.data.seq16
                       /\ a.data.tag = b.data.tag

\* C1: of the datagrams with one src_id, one seq16 and one HMAC, at most
\* one reaches the elevation callback, under every interleaving of the
\* workers; the same fresh valid packet received twice (no key reload) ends
\* with valid = 1, replays = 1 and one callback invocation.
C1_ReplayDefence ==
    /\ \A a, b \in BagToSet(delivered) :
          SameSrcSeqTag(a, b) => (a = b /\ CopiesIn(a, delivered) = 1)
    /\ ( /\ PipelineIdle
         /\ recv_log = (PGood :> 2)
         /\ reloads = 0
         /\ now_ms = StartMs )
       => ( /\ stats["valid"] = 1
            /\ stats["replays"] = 1
            /\ BagCardinality(delivered) = 1 )

C1_Witness ==
    /\ PipelineIdle
    /\ recv_log = (PGood :> 2)
    /\ reloads = 0
    /\ now_ms = StartMs
    /\ stats["replays"] = 1
    /\ BagCardinality(delivered) = 1

\* The key tables the receiver has held so far.
HeldTables == IF reloads = 0 THEN {InitialKeys} ELSE {InitialKeys} \cup KeyEnvs

Authentic(p) ==
    \E t \in HeldTables :
        /\ p.key_id \in DOMAIN t
        /\ p.tag = HmacSha256(t[p.key_id], SignedBytes(p))

\* The checks that precede the key lookup pass.
WellFramed(p) ==
    /\ p.size >= HEADER_SIZE + HMAC_SIZE
    /\ p.magic = "ASWM" /\ p.version = VERSION /\ p.ptype = TYPE_ELEVATION
    /\ p.payload_len <= MAX_PAYLOAD
    /\ p.size = HEADER_SIZE + p.payload_len + HMAC_SIZE

C2_DropStep ==
    /\ ( /\ ring_buffer # <<>> /\ ring_buffer' = Tail(ring_buffer)
         /\ WellFramed(Head(ring_buffer).data)
         /\ Head(ring_buffer).data.key_id \notin DOMAIN hmac_keys )
       => ( /\ stats' = Inc(stats, "invalid_key")
            /\ wpc' = wpc /\ delivered' = delivered
            /\ src_sequences' = src_sequences /\ replay_cache' = replay_cache )
    /\ \A w \in Workers :
         LET p == wentry[w].data
         IN  ( /\ wpc[w] = "verify" /\ wpc'[w] # "verify"
               /\ Abs(now_ms - p.ts_unix_ms) <= StaleLimitMs
               /\ p.key_id \in DOMAIN hmac_keys
               /\ p.tag # HmacSha256(hmac_keys[p.key_id], SignedBytes(p)) )
             => ( /\ stats' = Inc(stats, "invalid_hmac")
                  /\ wpc'[w] = "idle" /\ delivered' = delivered
                  /\ src_sequences' = src_sequences
                  /\ replay_cache' = replay_cache )

\* C2: the callback is invoked only for datagrams whose tag is the
\* HMAC-SHA-256 of header||payload under the key their key_id names in the
\* receiver's key table; a datagram naming an unknown key_id increments
\* invalid_key, one with a mismatching tag increments invalid_hmac, and
\* either is dropped without callback and without a change of the
\* per-source sequence table or of the packet-hash cache.
C2_AuthenticatedOnly ==
    /\ [](\A d \in BagToSet(delivered) : Authentic(d.data))
    /\ [][C2_DropStep]_vars

C2_Witness ==
    /\ stats["invalid_key"] >= 1
    /\ stats["invalid_hmac"] >= 1
    /\ stats["valid"] >= 1
    /\ PipelineIdle

\* The counters that end a packet's processing.
TerminalCounters == CounterNames \ {"received"}

RECURSIVE SumCounters(_, _)
SumCounters(s, names) ==
    IF names = {} THEN 0
    ELSE LET c == CHOOSE x \in names : TRUE
         IN  s[c] + SumCounters(s, names \ {c})

\* Datagrams received and not yet through: queued, held by a worker, or
\* evicted from the ring and not yet reported by the maintenance loop.
InPipeline ==
    Len(ring_buffer) + Cardinality({w \in Workers : wpc[w] # "idle"})
    + dropped_count

\* C12: every received datagram increments exactly one terminal counter:
\* 'received' is the sum of the terminal counters and of the datagrams
\* still in the pipeline, so it equals the sum of the terminal counters
\* once the pipeline is idle.
C12_ExactlyOneTerminalCounter ==
    stats["received"] = SumCounters(stats, TerminalCounters) + InPipeline

\* A step in which a worker invokes the elevation callback.
CallbackInvoked == delivered' # delivered

C13_Step ==
    (system_mode = "degraded" /\ CallbackInvoked) =>
        /\ CallbackOutcome(elevation_callback, system_mode) = "skipped"
        /\ stats'["valid"] = stats["valid"] + 1

\* C13: while the mode is DEGRADED no packet makes the elevation callback
\* run, whichever callback the listener was constructed with; the valid
\* packet is still counted.
C13_NoCallbackWhileDegraded == [][C13_Step]_vars

-----------------------------------------------------------------------------
(* Properties of the aggregator *)

\* The entries of a bag that satisfy a test, counted with their copies.
RECURSIVE SumCopies(_, _)
SumCopies(bag, S) ==
    IF S = {} THEN 0
    ELSE LET e == CHOOSE x \in S : TRUE
         IN  CopiesIn(e, bag) + SumCopies(bag, S \ {e})

CreateCallsOf(i, run_id) ==
    SumCopies(api_log, {e \in BagToSet(api_log) :
                           e.inst = i /\ e.run_id = run_id})

SuccessfulCreatesOf(name) ==
    SumCopies(api_log, {e \in BagToSet(api_log) :
                           e.name = name /\ e.status = 201})

ElevationArtifactsOf(run_id) ==
    {n \in DOMAIN configmaps : /\ configmaps[n].type = "elevation"
                               /\ configmaps[n].run_id = run_id}

WritersDone == writer_threads = EmptyBag

\* C3: every elevation decision, on the lease path and on the fast path, is
\* taken with at least quorum_threshold distinct witness nodes in the
\* sliding window (the node of a triggering datagram counted with them).
C3_QuorumForEveryElevation ==
    \A d \in BagToSet(decision_log) : d.witnesses >= QuorumThreshold

\* C4: one instance issues at most one create call of the elevation
\* artifact for a run.
C4_OneCreationPerInstance ==
    \A i \in Instances : CreateCallsOf(i, WatchRunId) <= 1

\* C5: at most one create of aswarm-elevated-<runid> succeeds, and the run
\* never has more than one elevation artifact.
C5_OneArtifactPerRun ==
    /\ SuccessfulCreatesOf(BgArtifactName(WatchRunId)) <= 1
    /\ Cardinality(ElevationArtifactsOf(WatchRunId)) <= 1

\* A step in which a create call is answered 409 Conflict.
ConflictAnswered ==
    \E e \in BagToSet(api_log') :
        /\ e.status = 409
        /\ CopiesIn(e, api_log') = CopiesIn(e, api_log) + 1

C6_ConflictStep ==
    ConflictAnswered =>
        /\ writer_raised' = writer_raised
        /\ writer_failures' = writer_failures
        /\ BagCardinality(writer_threads') = BagCardinality(writer_threads) - 1
        /\ configmaps' = configmaps
        /\ elevated' = elevated
        /\ last_elevation' = last_elevation
        /\ consecutive_elevations' = consecutive_elevations

\* C6: a create answered 409 Conflict is no error: the writer raises
\* nothing and reports no failure, its thread ends without a second create
\* call, no ConfigMap changes, and elevated, last_elevation and
\* consecutive_elevations stay as the decision left them.
C6_ConflictIsBenign == [][C6_ConflictStep]_vars

C6_Witness ==
    /\ WritersDone
    /\ \A i \in Instances : elevated[i]
    /\ \E e \in BagToSet(api_log) : e.status = 409 /\ e.target = "bg"
    /\ \E e \in BagToSet(api_log) : e.status = 201 /\ e.target = "bg"
    /\ writer_failures = 0
    /\ writer_raised = 0

-----------------------------------------------------------------------------
(* Properties of the catalog *)

\* The calls of execute that returned success with a revert handle.
Actuations ==
    {k \in 1..Len(results) : /\ results[k].result.success
                             /\ results[k].result.revert_handle # NoHandle}

\* A later actuation built the same handle when actuation k had expired.
ReappliedAfterExpiry(k) ==
    \E j \in Actuations :
        /\ j > k
        /\ results[j].result.revert_handle = results[k].result.revert_handle
        /\ results[j].result.applied_at >= results[k].result.expires_at

\* C7: the revert handle of every successful actuation is in active_ttls
\* until the actuation's deadline, and is out of it once the monitor has
\* scanned the table at or after the deadline (unless the handle has been
\* applied anew since).
C7_HandleLivesForTtl ==
    \A k \in Actuations :
        LET r == results[k].result
        IN  /\ cat_now < r.expires_at
                  => r.revert_handle \in TtlHandles(active_ttls)
            /\ (last_scan >= r.expires_at /\ ~ReappliedAfterExpiry(k))
                  => r.revert_handle \notin TtlHandles(active_ttls)

\* The step of one call of execute, and the call.
ExecuteReturned == Len(results') = Len(results) + 1
LastCall == results'[Len(results')]

C8_Step ==
    (ExecuteReturned /\ LastCall.request.action_id \in DOMAIN actions) =>
        LET ring == actions[LastCall.request.action_id].ring
            r    == LastCall.result
        IN  /\ ring > MAX_RING =>
                  /\ ~r.success
                  /\ r.raised = "none"
                  /\ r.message = "exceeds_max_ring"
                  /\ r.revert_handle = NoHandle
                  /\ commands_run' = commands_run
                  /\ active_ttls' = active_ttls
            /\ ring = MAX_RING => r.message # "exceeds_max_ring"

\* C8: execute of an action whose ring is above MAX_RING returns the
\* ring-exceeds-max failure, runs no external command and leaves the TTL
\* table alone, whatever the parameters; an action whose ring equals
\* MAX_RING is not rejected for its ring.
C8_RingLimit == [][C8_Step]_vars

C8_Witness ==
    /\ Len(results) = 2
    /\ results[1].request.action_id = "container_pause"
    /\ actions["container_pause"].requires_params
          \ DOMAIN results[1].request.params # {}
    /\ results[1].result.message = "exceeds_max_ring"
    /\ results[2].request.action_id \in DOMAIN actions
    /\ actions[results[2].request.action_id].ring = MAX_RING
    /\ results[2].result.success

\* C9: no call of execute raises: each returns an ActuationResult.
C9_ExecuteNeverRaises ==
    \A k \in 1..Len(results) : results[k].result.raised = "none"

\* C10: every successful call of execute has its action certificate
\* written.
C10_CertificateForEverySuccess ==
    \A k \in 1..Len(results) :
        results[k].result.success => k \in certificates

-----------------------------------------------------------------------------
(* Properties of the certificate *)

\* hmac.compare_digest(recorded, recomputed) of a verifier that holds the key.
CertVerifies(signature, key, bytes) ==
    signature = HexDigest(HmacSha256(key, bytes))

\* The bytes the latest write_text put under a path.
WrittenBytes(path) ==
    LET ks == {k \in 1..Len(cert_writes) : cert_writes[k].path = path}
    IN  cert_writes[CHOOSE k \in ks : \A j \in ks : j <= k].bytes

\* C11: the signature recorded for a certificate is the HMAC-SHA-256, under
\* the signing key, of the bytes of the certificate document as written; a
\* document whose bytes have changed since no longer verifies against it.
C11_SignatureOverWrittenBytes ==
    \A k \in 1..Len(run_results) :
        LET r   == run_results[k]
            key == CertEncode(IF ACTION_CERT_DEMO_KEY = CertUnset
                              THEN "aswarm-demo-key"
                              ELSE ACTION_CERT_DEMO_KEY)
        IN  /\ r.signature =
                  HexDigest(HmacSha256(key, WrittenBytes(r.certificate)))
            /\ CertVerifies(r.signature, key, cert_files[r.certificate])
                  <=> cert_files[r.certificate] = WrittenBytes(r.certificate)

C11_Witness ==
    /\ ACTION_CERT_DEMO_KEY = "K1"
    /\ Len(run_results) = 2
    /\ cert_files[run_results[1].certificate]
          # WrittenBytes(run_results[1].certificate)
    /\ cert_files[run_results[2].certificate]
          = WrittenBytes(run_results[2].certificate)


-----------------------------------------------------------------------------
(* Properties of the sender and of the link *)

\* The calls of send_elevation that transmitted the datagram p.
SendsOf(p) == {i \in 1..Len(sent) : ~sent[i].raised /\ sent[i].packet = p}

\* The callback's dictionary for the packet of call i: the payload the
\* sender encoded, and the metadata of the header the sender built.
RoundTrip(d, i) ==
    /\ d.payload = sent[i].payload_dict
    /\ d.fastpath.src_id = Hex8(NodeSrcId(SenderNode))
    /\ d.fastpath.seq16 = sent[i].seq32 % 65536
    /\ d.fastpath.key_id = SenderKeyId
    /\ d.fastpath.ts_unix_ms = sent[i].wall

AgeChecked(w) == wpc[w] = "verify" /\ wpc'[w] # "verify"

C15_Step ==
    \A w \in Workers :
        AgeChecked(w) =>
            LET p == wentry[w].data
                age_ms == Abs(now_ms - p.ts_unix_ms)
            IN  /\ (age_ms = StaleLimitMs + 1) =>
                       /\ stats' = Inc(stats, "stale")
                       /\ wpc'[w] = "idle"
                       /\ delivered' = delivered
                /\ (age_ms = StaleLimitMs /\ Authentic(p)) =>
                       /\ stats' = stats
                       /\ wpc'[w] = "seq"
                       /\ wentry'[w].age_ms = StaleLimitMs

\* C15: a v3 packet whose header timestamp is exactly 5000 ms old when the
\* worker checks it passes the age check and is not counted stale; one that
\* is 5001 ms old is counted under 'stale' and dropped; no packet older
\* than 5000 ms at its check reaches the callback.
C15_StalenessBoundary ==
    /\ [](\A d \in BagToSet(delivered) : d.fastpath.age_ms <= StaleLimitMs)
    /\ [][C15_Step]_vars

\* Both boundary packets were received after the clock advanced: the one
\* 5000 ms old reached the callback, the one 5001 ms old was counted stale.
C15_Witness ==
    /\ PipelineIdle
    /\ now_ms = StartMs + TickMs
    /\ recv_log = (PAge5000 :> 1) @@ (PAge5001 :> 1)
    /\ stats["stale"] = 1
    /\ BagCardinality(delivered) = 1
    /\ \E d \in BagToSet(delivered) :
          d.data = PAge5000 /\ d.fastpath.age_ms = StaleLimitMs


\* The sequence check of worker w is taken in this step.
SeqChecked(w) == wpc[w] = "seq" /\ wpc'[w] # "seq"

C16_Step ==
    \A w \in Workers :
        SeqChecked(w) =>
            LET p == wentry[w].data
                st == SeqState(src_sequences, p.src_id)
            IN  /\ (p.seq16 = st.highest - ReplayWindow /\ p.seq16 \notin st.seen)
                       => /\ wpc'[w] = "hash"
                          /\ stats' = stats
                /\ (p.seq16 = st.highest - ReplayWindow /\ p.seq16 \in st.seen)
                       => /\ wpc'[w] = "idle"
                          /\ stats' = Inc(stats, "replays")
                /\ (p.seq16 = st.highest - ReplayWindow - 1)
                       => /\ wpc'[w] = "idle"
                          /\ stats' = Inc(stats, "replays")

\* C16: for a source whose highest accepted sequence is H, an authenticated
\* packet with sequence H - 256 passes the sequence check the first time it
\* is seen and is counted a replay when seen again; one with sequence
\* H - 257 is counted a replay.
C16_ReplayWindowBoundary == [][C16_Step]_vars


\* ring_buffer.push is called in this step: a datagram was received and
\* passed the source filter and the rate limit.
Pushed ==
    /\ stats'["received"] = stats["received"] + 1
    /\ stats'["rate_limited"] = stats["rate_limited"]
    /\ \A addr \in Addrs : SourceAllowed(addr[1])

\* The drops the ring has counted: those not yet collected and those the
\* maintenance loop has reported under 'dropped_oldest'.
DropsReported(count, s) == count + s["dropped_oldest"]

C17_Step ==
    IF Pushed
    THEN /\ Len(ring_buffer) = RingCapacity =>
               /\ ring_buffer' = Append(Tail(ring_buffer),
                                        ring_buffer'[Len(ring_buffer')])
               /\ DropsReported(dropped_count', stats')
                     = DropsReported(dropped_count, stats) + 1
         /\ Len(ring_buffer) < RingCapacity =>
               /\ ring_buffer' = Append(ring_buffer,
                                        ring_buffer'[Len(ring_buffer')])
               /\ DropsReported(dropped_count', stats')
                     = DropsReported(dropped_count, stats)
    ELSE /\ \/ ring_buffer' = ring_buffer
            \/ ring_buffer # <<>> /\ ring_buffer' = Tail(ring_buffer)
         /\ DropsReported(dropped_count', stats')
               = DropsReported(dropped_count, stats)

\* C17: a push on a ring that holds capacity entries removes the oldest,
\* appends the new one and counts one drop; the ring never holds more than
\* capacity entries; the drops collected into 'dropped_oldest' and those
\* still to be collected grow by one with every eviction and with nothing
\* else.
C17_RingBuffer ==
    /\ [](Len(ring_buffer) <= RingCapacity)
    /\ [][C17_Step]_vars

\* An entry was evicted from the full ring, the maintenance loop has
\* reported it, and the ring is full again.
C17_Witness ==
    /\ stats["dropped_oldest"] = 1
    /\ dropped_count = 0
    /\ Len(ring_buffer) = RingCapacity


\* The tokens (in 1/1000) the bucket of ip holds once refilled at now.
Refilled(ip) ==
    IF ip \in DOMAIN buckets
    THEN Min2(RateCapacity * 1000,
              buckets[ip].tokens
                + Max2(0, now_ms - buckets[ip].last) * RateFillPerSec)
    ELSE RateCapacity * 1000

C18_Step ==
    \A addr \in Addrs :
        (stats'["received"] = stats["received"] + 1) =>
            /\ Refilled(addr[1]) < 1000 =>
                   /\ stats'["rate_limited"] = stats["rate_limited"] + 1
                   /\ buckets'[addr[1]].tokens = Refilled(addr[1])
                   /\ ring_buffer' = ring_buffer
                   /\ dropped_count' = dropped_count
            /\ Refilled(addr[1]) >= 1000 =>
                   /\ stats'["rate_limited"] = stats["rate_limited"]
                   /\ buckets'[addr[1]].tokens = Refilled(addr[1]) - 1000
                   /\ ring_buffer' # <<>>
            /\ Refilled(addr[1]) = 1000 => buckets'[addr[1]].tokens = 0

\* C18: a packet that arrives when the refilled bucket of its source holds
\* less than one token is counted rate_limited, is not queued and takes no
\* token; one that arrives when it holds exactly one token is queued and
\* leaves none; the stored tokens are always within [0, capacity].
C18_TokenBucket ==
    /\ [](\A ip \in DOMAIN buckets :
             /\ buckets[ip].tokens >= 0
             /\ buckets[ip].tokens <= RateCapacity * 1000)
    /\ [][C18_Step]_vars

\* After a packet was rejected the bucket reached exactly one token, and
\* the packet that then arrived was queued and emptied the bucket.
C18_Witness ==
    \E ip \in DOMAIN buckets :
        /\ buckets[ip].tokens = 0
        /\ buckets[ip].last > StartMs
        /\ stats["rate_limited"] >= 1
        /\ stats["received"] > stats["rate_limited"]


\* The optional fields a detection carries, in the order send_elevation
\* tries them.
PresentOptional(anomaly_data) ==
    SelectSeq(optional_anomaly \o optional_meta,
              LAMBDA f : DictHas(anomaly_data, f))

\* The dictionary d with the optional field f of a detection: under
\* 'anomaly' for the anomaly fields, at the top for the others.
WithField(d, f, anomaly_data) ==
    IF \E k \in 1..Len(optional_anomaly) : optional_anomaly[k] = f
    THEN DictSet(d, "anomaly",
                 DictSet(DictGet(d, "anomaly"), f, DictGet(anomaly_data, f)))
    ELSE DictSet(d, f, DictGet(anomaly_data, f))

\* The base payload with the first n present optional fields.
RECURSIVE WithPrefix(_, _, _, _)
WithPrefix(base, fields, n, anomaly_data) ==
    IF n = 0 THEN base
    ELSE WithField(WithPrefix(base, fields, n - 1, anomaly_data),
                   fields[n], anomaly_data)

Fits(d) == JsonLen(d) <= MAX_PACKET_SIZE - HEADER_SIZE - HMAC_SIZE

\* The base payload of a call with the longest prefix of its present
\* optional fields whose encoding is within the budget.
LongestFittingPrefix(call) ==
    LET base == BasePayloadDict(call.anomaly_data, call.run_id, call.seq32,
                                call.wall)
        fields == PresentOptional(call.anomaly_data)
        n == CHOOSE k \in 0..Len(fields) :
                 /\ \A j \in 0..k : Fits(WithPrefix(base, fields, j,
                                                     call.anomaly_data))
                 /\ k < Len(fields) =>
                        ~Fits(WithPrefix(base, fields, k + 1,
                                         call.anomaly_data))
    IN  WithPrefix(base, fields, n, call.anomaly_data)

BaseLen(call) ==
    JsonLen(BasePayloadDict(call.anomaly_data, call.run_id, call.seq32,
                            call.wall))

\* C19: send_elevation transmits when the encoding of the base payload is
\* exactly the budget (1200 - header size - 32) and raises, transmitting
\* nothing, when it is one byte more; no transmitted packet is longer than
\* 1200 bytes; the transmitted payload is the base payload with the longest
\* prefix of the present optional fields that fits.
C19_PayloadBudget ==
    /\ net = {sent[i].packet : i \in {j \in 1..Len(sent) : ~sent[j].raised}}
    /\ \A i \in 1..Len(sent) :
          /\ BaseLen(sent[i]) = MAX_PACKET_SIZE - HEADER_SIZE - HMAC_SIZE
                => ~sent[i].raised
          /\ BaseLen(sent[i]) = MAX_PACKET_SIZE - HEADER_SIZE - HMAC_SIZE + 1
                => sent[i].raised
          /\ ~sent[i].raised =>
                /\ sent[i].packet.size <= MAX_PACKET_SIZE
                /\ sent[i].packet.payload
                      = json_dumps(LongestFittingPrefix(sent[i]))

\* One call raised on a base payload one byte over the budget; another
\* sent a base payload of exactly the budget in a packet of 1200 bytes,
\* without the event_type it was given.
C19_Witness ==
    /\ \E i \in 1..Len(sent) :
          /\ BaseLen(sent[i]) = MAX_PACKET_SIZE - HEADER_SIZE - HMAC_SIZE + 1
          /\ sent[i].raised
    /\ \E i \in 1..Len(sent) :
          /\ BaseLen(sent[i]) = MAX_PACKET_SIZE - HEADER_SIZE - HMAC_SIZE
          /\ sent[i].packet \in net
          /\ sent[i].packet.size = MAX_PACKET_SIZE
          /\ DictHas(sent[i].anomaly_data, "event_type")
          /\ ~DictHas(DictGet(json_loads(sent[i].packet.payload), "anomaly"),
                      "event_type")


\* The artifacts of the fast path.
FastpathArtifacts == {n \in DOMAIN configmaps : configmaps[n].source = "fastpath"}

\* One datagram has reached the aggregator and no lease signal has.
SingleShot == lease_stream = <<>> /\ fastpath_calls = 1

\* C20: after one valid datagram with score 0.95 and a self-reported
\* witness_count of 4, the elevation artifact has reason fast_path,
\* witness_count 1 (the distinct nodes of the window) and p95_score 0.95,
\* and the signal of the datagram is in the window list of the instance
\* that received it.
C20_FastPathSingleShot ==
    SingleShot =>
        \A n \in FastpathArtifacts :
            LET doc == configmaps[n].data
            IN  /\ "reason" \in DOMAIN doc
                /\ doc.reason = "fast_path"
                /\ doc.witness_count = 1
                /\ "p95_score" \in DOMAIN doc
                /\ doc.p95_score = 95
                /\ \E i \in Instances :
                      \E k \in 1..Len(signals[i]) :
                          signals[i][k].node = doc.node

-----------------------------------------------------------------------------
(* Properties of the back-pressure monitor *)

\* _monitor_loop line 682: the queue depths with q_ratio > 0.9.
HotDepths == {n \in 0..RingCapacity : n * 10 > 9 * Max2(1, RingCapacity)}
Hot == Len(ring_buffer) \in HotDepths

\* The time from which the ring stays hot in the runs examined.
HotStart == StartMs + 1000

\* C21: if the ring is more than 90% full during at least 4 s, the
\* receiver eventually enters DEGRADED, the monitor loop being scheduled
\* every second.
C21_BackPressureLiveness ==
    (/\ []((now_ms >= HotStart /\ now_ms <= HotStart + 4000) => Hot)
     /\ <>(now_ms = HotStart + 4000))
        => <>(system_mode = "degraded")

\* The pairs (dropped, received) of a rate window whose drop rate is above
\* DROP_RATE_DEGRADE_THRESHOLD.
DegradeRates ==
    {c \in (0..(2 * MaxRecv)) \X (1..MaxRecv) : c[1] * 100 > 2 * c[2]}

\* The drop rate of the window is above 2% and the grace window of 30 s
\* since last_degrade_check is over.
DropRateDegrades ==
    /\ <<WindowDropped, WindowReceived>> \in DegradeRates
    /\ now_ms - last_degrade_check > DEGRADE_CHECK_WINDOW * 1000

\* The time at which the queue is still below that fill in the runs
\* examined: the time of the second burst.
ColdAt == StartMs + 6000

\* Once the queue is seen at most 90% full at time t in NORMAL mode, the
\* mode is NORMAL at every time before t + 3 s, the drop rate aside.
StaysNormalAfterCold(t) ==
    []((now_ms = t /\ ~Hot /\ system_mode = "normal")
          => []((now_ms >= t /\ now_ms < t + HotForLimitMs)
                   => (system_mode = "normal" \/ DropRateDegrades)))

\* C27: the receiver leaves NORMAL for DEGRADED only when the queue has
\* been more than 90% full continuously for 3 s, or when the drop rate of
\* the window exceeds 2% after the 30 s grace window: a queue seen below
\* that fill less than 3 s ago does not let the mode change.
C27_DegradeNeedsSustainedPressure == StaysNormalAfterCold(ColdAt)

\* The queue-fill ratio is below 0.2 and the drop rate of the window below
\* 0.25%.
RecoveryConditions ==
    /\ Len(ring_buffer) * 10 < 2 * Max2(1, RingCapacity)
    /\ \/ WindowReceived = 0
       \/ WindowDropped * 10000 < 25 * WindowReceived

C28_Step ==
    /\ (system_mode = "degraded" /\ system_mode' = "normal")
           => RecoveryConditions
    /\ (system_mode = "degraded" /\ ~RecoveryConditions)
           => system_mode' = "degraded"
    /\ system_mode' # system_mode
           => <<system_mode, system_mode'>> \in
                  {<<"normal", "degraded">>, <<"degraded", "normal">>}

\* C28: the mode goes from DEGRADED to NORMAL only in a step in which the
\* queue-fill ratio is below 0.2 and the drop rate below 0.25%; while
\* either fails the mode stays DEGRADED; the mode never changes otherwise
\* than from NORMAL to DEGRADED or from DEGRADED to NORMAL.
C28_RecoveryConditions == [][C28_Step]_vars

\* The monitor has brought the mode back to NORMAL: last_degrade_check is
\* the time of that pass.
C28_Witness ==
    /\ system_mode = "normal"
    /\ last_degrade_check = StartMs + ElapseMs
    /\ stats["received"] >= RingCapacity

-----------------------------------------------------------------------------
(* Properties of the catalog under DRY_RUN *)

\* A request the validation of execute has nothing against: a known action
\* within MAX_RING, its required parameters present, every value of the
\* type and range its primitive works with.
SoundRequest(req) ==
    /\ req.action_id \in DOMAIN actions
    /\ actions[req.action_id].ring <= MAX_RING
    /\ actions[req.action_id].requires_params \subseteq DOMAIN req.params
    /\ \A name \in DOMAIN req.params :
          CASE name \in {"rate_mbps"} ->
                  req.params[name].t = "int" /\ req.params[name].n > 0
            [] name = "score" -> req.params[name].t = "int"
            [] name = "ttl_seconds" ->
                  /\ req.params[name].t = "int"
                  /\ cat_now + req.params[name].n <= MaxTimestamp
            [] name = "pid" -> IntLike(req.params[name])
            [] OTHER -> req.params[name].t = "str"
                        /\ Strip(req.params[name].s) # ""

\* The TTL of a request: its ttl_seconds or the default of its action.
TtlOf(req) ==
    Get(req.params, "ttl_seconds", VInt(actions[req.action_id].ttl_seconds)).n

C22_Step ==
    DRY_RUN =>
        /\ commands_run' = commands_run
        /\ ExecuteReturned =>
              LET req == LastCall.request
                  res == LastCall.result
              IN  /\ res.commands = 0
                  /\ SoundRequest(req) =>
                        /\ res.success
                        /\ res.proof = [present |-> TRUE, dry_run |-> TRUE]
                        /\ req.action_id # "log_anomaly" =>
                              /\ res.revert_handle # NoHandle
                              /\ res.expires_at = cat_now + TtlOf(req)
                              /\ TtlOf(req) > 0 =>
                                    \E k \in 1..Len(active_ttls') :
                                        /\ active_ttls'[k].handle =
                                               res.revert_handle
                                        /\ active_ttls'[k].expire_mono =
                                               cat_now + TtlOf(req)
                  /\ res.success => res.proof.dry_run

\* C22: under DRY_RUN neither execute nor a revert the TTL monitor makes
\* runs an external command, whatever the action and its parameters; a
\* sound request still gets a success result with its revert handle, its
\* TTL entry scheduled and proof.dry_run true.
C22_DryRunRunsNothing == [][C22_Step]_vars

\* Under DRY_RUN a network isolation was applied and the TTL monitor has
\* reverted it.
C22_Witness ==
    /\ DRY_RUN /\ cat_started
    /\ commands_run = 0
    /\ \E k \in 1..Len(results), j \in 1..Len(reverted) :
          /\ results[k].request.action_id = "networkpolicy_isolate"
          /\ results[k].result.success
          /\ reverted[j].handle = results[k].result.revert_handle
          /\ reverted[j].outcome = "done"

-----------------------------------------------------------------------------
(* Properties of the wire versions *)

\* C23: a version-2 packet and a version-3 packet built by the sender with
\* a key the receiver holds are each delivered to the callback by the same
\* receiver once it has processed them, and neither is counted as
\* invalid_version.
C23_BothVersionsAccepted ==
    /\ stats["invalid_version"] = 0
    /\ (PipelineIdle /\ dropped_count = 0)
          => \A p \in BagToSet(recv_log) :
                 p.version \in {V2, V3}
                    => \E d \in BagToSet(delivered) : d.data = p


\* The replay verdict of the claim for sequence s against a per-source entry.
RejectedAsReplay(st, s) == s <= st.highest - 256 \/ s \in st.seen

C24_Step ==
    \A w \in Workers :
        SeqChecked(w) =>
            LET p   == wentry[w].data
                st  == SeqState(src_sequences, p.src_id)
                st2 == SeqState(src_sequences', p.src_id)
            IN  IF RejectedAsReplay(st, p.seq16)
                THEN /\ wpc'[w] = "idle"
                     /\ stats' = Inc(stats, "replays")
                     /\ src_sequences' = src_sequences
                ELSE /\ wpc'[w] = "hash"
                     /\ stats' = stats
                     /\ p.src_id \in DOMAIN src_sequences'
                     /\ st2.highest = Max2(st.highest, p.seq16)
                     /\ p.seq16 \in st2.seen
                     /\ p.seq16 > st2.highest - 256
                     /\ \A src \in DOMAIN src_sequences \ {p.src_id} :
                            src_sequences'[src] = src_sequences[src]

\* C24: the sequence check rejects an authenticated packet with sequence s
\* of source src as a replay exactly when s <= highest(src) - 256 or s is in
\* the seen set of src; otherwise the packet passes, highest(src) becomes
\* max(highest(src), s) and s is in the seen set; a packet that passes is
\* less than 256 sequences behind the highest accepted one of its source.
C24_PerSourceReplayRule == [][C24_Step]_vars

\* The three cases have happened for source 2: sequence 301 passed and
\* became the highest, then 45 was rejected as too old though it is in no
\* seen set, and 300 was rejected as already seen.
C24_Witness ==
    /\ 2 \in DOMAIN src_sequences
    /\ src_sequences[2].highest = 301
    /\ {300, 301} \subseteq src_sequences[2].seen
    /\ 45 \notin src_sequences[2].seen
    /\ recv_log = SetToBag({PNew301, PEdge45, PHigh})
    /\ stats["replays"] = 2
    /\ \A w \in Workers : wpc[w] = "idle"


\* Each stored entry: at most 256 seen sequences, the highest among them and
\* above every other one, and no delivered packet of the source above it.
C25_Entries ==
    \A src \in DOMAIN src_sequences :
        LET st == src_sequences[src]
        IN  /\ Cardinality(st.seen) <= 256
            /\ st.highest \in st.seen
            /\ \A s \in st.seen : s <= st.highest
            /\ \A d \in BagToSet(delivered) :
                   d.data.src_id = src => d.data.seq16 <= st.highest

\* The table changes only in a sequence check that passes; there the highest
\* becomes the larger of the old highest and the new sequence, and every
\* sequence seen so far that is not yet too old stays in the set.
C25_Step ==
    /\ (\A w \in Workers : ~SeqChecked(w)) => src_sequences' = src_sequences
    /\ \A w \in Workers :
          (SeqChecked(w) /\ wpc'[w] = "hash") =>
              LET p   == wentry[w].data
                  st  == SeqState(src_sequences, p.src_id)
                  st2 == SeqState(src_sequences', p.src_id)
              IN  /\ st2.highest = Max2(st.highest, p.seq16)
                  /\ st2.seen \subseteq st.seen \cup {p.seq16}
                  /\ \A s \in st.seen \cup {p.seq16} :
                         s > st2.highest - 256 => s \in st2.seen

\* C25: for every source the stored seen set has at most 256 entries and the
\* stored highest is the largest sequence accepted from it; pruning removes
\* only sequences that the too-old test rejects from then on.
C25_SeenSetBounded == [](C25_Entries) /\ [][C25_Step]_vars

\* The full set of source 2 was pruned when 301 passed (40 and 45 left it),
\* and 50, still inside the window, passed afterwards.
C25_Witness ==
    /\ 2 \in DOMAIN src_sequences
    /\ src_sequences[2].highest = 301
    /\ src_sequences[2].seen = 46..301
    /\ stats["replays"] = 0


\* The first failing check of a datagram in the order size, magic, version,
\* type, payload length, total size, timestamp age, key lookup, HMAC.
FirstFailingCheck(p, keys, now) ==
    IF p.size < HEADER_SIZE + HMAC_SIZE THEN "too_short"
    ELSE IF p.magic # "ASWM" THEN "invalid_magic"
    ELSE IF p.version # VERSION THEN "invalid_version"
    ELSE IF p.ptype # TYPE_ELEVATION THEN "invalid_type"
    ELSE IF p.payload_len > MAX_PAYLOAD THEN "oversize_payload"
    ELSE IF p.size # HEADER_SIZE + p.payload_len + HMAC_SIZE THEN "size_mismatch"
    ELSE IF Abs(now - p.ts_unix_ms) > StaleLimitMs THEN "stale"
    ELSE IF p.key_id \notin DOMAIN keys THEN "invalid_key"
    ELSE IF p.tag # HmacSha256(keys[p.key_id], SignedBytes(p)) THEN "invalid_hmac"
    ELSE "ok"

\* A worker takes the head of the ring and rejects it before the timestamp
\* check.
RejectedAtPop ==
    /\ ring_buffer # <<>>
    /\ ring_buffer' = Tail(ring_buffer)
    /\ stats'["received"] = stats["received"]
    /\ wpc' = wpc

\* Worker w rejects its datagram in the timestamp or HMAC check.
RejectedAtVerify(w) == wpc[w] = "verify" /\ wpc'[w] = "idle"

C26_Step ==
    /\ RejectedAtPop =>
          stats' = IncIf(stats, CounterOf(
                      FirstFailingCheck(Head(ring_buffer).data, hmac_keys, now_ms)))
    /\ \A w \in Workers :
          RejectedAtVerify(w) =>
              stats' = IncIf(stats, CounterOf(
                          FirstFailingCheck(wentry[w].data, hmac_keys, now_ms)))

\* Rate-limit tokens taken so far from the buckets (the clock stands still,
\* so there is no refill).
TokensTaken ==
    IF buckets = <<>> THEN 0
    ELSE LET ip == CHOOSE x \in DOMAIN buckets : TRUE
         IN  RateCapacity - (buckets[ip].tokens \div 1000)

\* Datagrams rejected by a check that precedes the rate limit in the order.
RejectedBeforeRateLimit ==
    stats["invalid_magic"] + stats["invalid_version"] + stats["invalid_type"]
    + stats["stale"] + stats["invalid_key"] + stats["invalid_hmac"]
    + stats["replays"] + stats["invalid_json"]

\* C26: a rejected datagram is counted under its first failing check in the
\* order size, header, magic/version/type, payload length, total size,
\* timestamp age, key lookup, HMAC, ..., allow-list, rate limit: a stale
\* datagram naming an unknown key is counted stale, and a datagram rejected
\* before the rate limit has taken no token.
C26_CheckOrder ==
    /\ [](TokensTaken <= stats["received"] - RejectedBeforeRateLimit)
    /\ [][C26_Step]_vars


\* The ticks so far, the one in progress included, each with its score and
\* the elevate flag its patch carries.
Ticks ==
    IF tick.active
    THEN Append(tel_log, [seq |-> tel_sequence, score |-> tick.score,
                          elevate |-> tick.elevate, outcome |-> "pending"])
    ELSE tel_log

\* The patches sent for the latest tick carry the elevate annotation.
PatchesCarryElevate ==
    \A k \in 1..Len(lease_calls) :
        lease_calls[k].verb = "patch" =>
            "aswarm.ai/elevate" \in DOMAIN lease_calls[k].annotations

\* C29: a tick's patch carries the elevate annotation exactly when the score
\* of that tick and the score of the tick before it are both above 0.7; the
\* first tick never elevates, and after a tick at or below 0.7 the next
\* elevate needs two high ticks in a row again.
C29_Hysteresis ==
    /\ \A k \in 1..Len(Ticks) :
          Ticks[k].elevate <=>
              (Ticks[k].score > 70 /\ k > 1 /\ Ticks[k - 1].score > 70)
    /\ Ticks # <<>> =>
          /\ lease_calls # <<>> => lease_calls[1].verb = "patch"
          /\ ~tick.active => lease_calls # <<>>
          /\ \A k \in 1..Len(lease_calls) :
                lease_calls[k].verb = "patch" =>
                    ("aswarm.ai/elevate" \in DOMAIN lease_calls[k].annotations
                        <=> Ticks[Len(Ticks)].elevate)

\* Ticks high, high, low, high, high: the second and the fifth elevate, the
\* fourth does not, and the patch of the fifth was sent with the annotation.
C29_Witness ==
    /\ ~tick.active
    /\ Len(tel_log) = 5
    /\ [k \in 1..5 |-> tel_log[k].score] = <<71, 71, 70, 71, 71>>
    /\ [k \in 1..5 |-> tel_log[k].elevate] = <<FALSE, TRUE, FALSE, FALSE, TRUE>>
    /\ PatchesCarryElevate
    /\ lease.exists /\ "aswarm.ai/elevate" \in DOMAIN lease.annotations


\* The patch attempts of the latest update_lease.
IsPatch(call) == call.verb = "patch"

PatchCalls == SelectSeq(lease_calls, IsPatch)

\* The answers after which the patch is to be retried.
Retryable(status) == status \in {409, 429} \/ status \in 500..599

\* update_lease has returned for the latest tick.
UpdateReturned == ~tick.active /\ lease_calls # <<>>

\* C30: update_lease makes at most three patch attempts; an attempt answered
\* 409, 429 or 5xx is followed by another one unless it was the third, after
\* a backoff that grows linearly with the attempt; and when the third is
\* answered that way too, the call does not return as after a successful
\* patch.
C30_RetryThenSurface ==
    /\ Len(PatchCalls) <= 3
    /\ \A k \in 1..Len(PatchCalls) :
          Retryable(PatchCalls[k].status) =>
              /\ PatchCalls[k].slept = 10 * k
              /\ (UpdateReturned /\ k < 3) => Len(PatchCalls) > k
    /\ (UpdateReturned /\ Len(PatchCalls) = 3
           /\ Retryable(PatchCalls[3].status))
          => tel_log[Len(tel_log)].outcome # "returned"

\* update_lease always returns.
UpdateLeaseTerminates == tick.active ~> ~tick.active


-----------------------------------------------------------------------------
(* Properties of the aggregator's decision rules *)

\* Instance i handles a lease event in this step.
Watched(i) == watch_pos'[i] = watch_pos[i] + 1

\* The metrics instance i computes when it handles its next lease event.
NextMetrics(i) ==
    compute_sliding_window_quorum(
        Append(signals[i], lease_stream[watch_pos[i] + 1]),
        WatchRunId, agg_now)

\* The reason the stated priority gives for metrics m on instance i.
ReasonByPriority(m, i) ==
    IF m = NoMetrics THEN "no_metrics"
    ELSE IF agg_now - last_elevation[i] < 2000 THEN "backoff"
    ELSE IF elevated[i] THEN "already_elevated"
    ELSE IF m.witness_count < QuorumThreshold THEN "quorum"
    ELSE IF m.p95_score >= 90 THEN "fast_path"
    ELSE IF m.sum_score >= 70 * m.total_samples
    THEN IF consecutive_elevations[i] >= 1 THEN "hysteresis" ELSE "building"
    ELSE "reset_hysteresis"

C31_Step ==
    \A i \in Instances :
        Watched(i) =>
            LET m == NextMetrics(i)
                d == should_elevate(m, i, agg_now)
                r == ReasonByPriority(m, i)
            IN  /\ d.reason = r
                /\ d.ok <=> r \in {"fast_path", "hysteresis"}
                /\ r \in {"fast_path", "hysteresis"} =>
                      /\ BagCardinality(writer_threads')
                            = BagCardinality(writer_threads) + 1
                      /\ \E e \in BagToSet(decision_log') :
                            /\ e.inst = i /\ e.reason = r
                            /\ CopiesIn(e, decision_log') > CopiesIn(e, decision_log)
                /\ r \notin {"fast_path", "hysteresis"} =>
                      /\ writer_threads' = writer_threads
                      /\ decision_log' = decision_log
                      /\ last_elevation' = last_elevation
                      /\ elevated' = elevated
                /\ configmaps' = configmaps

\* C31: should_elevate gives the one reason of the priority no_metrics,
\* backoff, already_elevated, quorum, fast_path, hysteresis or building,
\* reset; it answers with an elevation exactly under fast_path and
\* hysteresis, and only then does the watch loop start an artifact write.
C31_RulePriority == [][C31_Step]_vars

\* Instance a1 elevated through the fast path of should_elevate, and has
\* since handled a further lease event, after the backoff period, without
\* starting a second write.
C31_Witness ==
    /\ \E e \in BagToSet(decision_log) :
          e.inst = "a1" /\ e.path = "lease" /\ e.reason = "fast_path"
    /\ BagCardinality(writer_threads) = 1
    /\ agg_now >= last_elevation["a1"] + ElevationBackoffMs
    /\ watch_pos["a1"] = Len(lease_stream)
    /\ lease_stream[Len(lease_stream)].server_ts >= last_elevation["a1"] + ElevationBackoffMs


\* Instance i evaluates metrics m past the backoff, the already-elevated and
\* the quorum tests, with p95 below the fast-path score.
OnHysteresisPath(m, i) ==
    /\ m # NoMetrics
    /\ agg_now - last_elevation[i] >= 2000
    /\ ~elevated[i]
    /\ m.witness_count >= QuorumThreshold
    /\ m.p95_score < 90

\* The decisions of instance i taken in this step, by reason.
Decided(i, reason) ==
    \E e \in BagToSet(decision_log') :
        /\ e.inst = i /\ e.path = "lease" /\ e.reason = reason
        /\ CopiesIn(e, decision_log') > CopiesIn(e, decision_log)

C32_Step ==
    \A i \in Instances :
        Watched(i) =>
            LET m == NextMetrics(i)
                high == m.sum_score >= 70 * m.total_samples
            IN  /\ (OnHysteresisPath(m, i) /\ high) =>
                      /\ consecutive_elevations'[i] = consecutive_elevations[i] + 1
                      /\ consecutive_elevations[i] = 0 =>
                            /\ decision_log' = decision_log
                            /\ ~elevated'[i]
                      /\ consecutive_elevations[i] >= 1 =>
                            /\ Decided(i, "hysteresis")
                            /\ elevated'[i]
                /\ (OnHysteresisPath(m, i) /\ ~high) =>
                      /\ consecutive_elevations'[i] = 0
                      /\ decision_log' = decision_log
                /\ Decided(i, "hysteresis") =>
                      /\ OnHysteresisPath(m, i) /\ high
                      /\ consecutive_elevations'[i] >= 2

\* C32: with quorum met, mean >= 0.7 and p95 < 0.90, an evaluation adds one
\* to the consecutive counter; with the counter at 0 it answers 'building'
\* and does not elevate, and it elevates with reason 'hysteresis' only with
\* the counter at 2 or more; with quorum met and the mean below 0.7 the
\* counter goes back to 0.
C32_HysteresisPath == [][C32_Step]_vars

\* Signals of score 0.72 only, from two nodes: the evaluation that first met
\* quorum answered 'building', the next one elevated with 'hysteresis'.
C32_Witness ==
    /\ Len(signals["a1"]) = 3
    /\ \A k \in 1..3 : signals["a1"][k].score = 72
    /\ {signals["a1"][k].node : k \in 1..2} = Nodes
    /\ consecutive_elevations["a1"] = 2
    /\ elevated["a1"]
    /\ \E e \in BagToSet(decision_log) :
          e.inst = "a1" /\ e.reason = "hysteresis" /\ e.witnesses = 2
    /\ BagCardinality(decision_log) = 1


\* The scores of the in-window signals of instance i that match its run id.
WindowScores(i) ==
    LET ws == WindowSignals(signals[i], WatchRunId, agg_now)
    IN  [k \in 1..Len(ws) |-> ws[k].score]

WindowNodes(i) ==
    LET ws == WindowSignals(signals[i], WatchRunId, agg_now)
    IN  {ws[k].node : k \in 1..Len(ws)}

\* ceil(95 n / 100): the rank of the nearest-rank 95th percentile.
NearestRank(n) == (95 * n + 99) \div 100

\* C33: over the in-window signals of the run, p95_score is the score of
\* rank ceil(0.95 n) among the n scores in ascending order, and witness_count
\* is the number of distinct nodes.
C33_NearestRankP95 ==
    \A i \in Instances :
        LET scores == WindowScores(i)
            m == compute_sliding_window_quorum(signals[i], WatchRunId, agg_now)
        IN  scores # <<>> =>
               /\ m.witness_count = Cardinality(WindowNodes(i))
               /\ m.p95_score = Sorted(scores)[NearestRank(Len(scores))]

-----------------------------------------------------------------------------
(* Properties of the TTL monitor *)

\* The entries of a table past their deadline at time now.
Overdue(table, now) ==
    {table[k] : k \in {j \in 1..Len(table) : now >= table[j].expire_mono}}

\* The steps of the monitor: a pass over the table, one call of
\* _revert_action.
MonitorScanned == mon_pc = "scan" /\ last_scan' # last_scan
MonitorReverted == Len(reverted') = Len(reverted) + 1

\* The calls of execute that scheduled a revert.
ScheduledCalls == {k \in 1..Len(results) : results[k].result.scheduled}

C34_Step ==
    /\ MonitorScanned =>
          /\ \A e \in Overdue(active_ttls, cat_now) :
                /\ e.handle \notin TtlHandles(active_ttls')
                /\ \E k \in 1..Len(mon_expired') : mon_expired'[k] = e
          /\ Len(mon_expired') = Cardinality(Overdue(active_ttls, cat_now))
          /\ reverted' = reverted
    /\ MonitorReverted =>
          /\ mon_pc = "revert"
          /\ reverted'[Len(reverted')].handle = Head(mon_expired).handle
          /\ SubSeq(reverted', 1, Len(reverted)) = reverted
          /\ mon_expired' \in {Tail(mon_expired), <<>>}
          /\ active_ttls' = active_ttls
    /\ ~ExecuteReturned =>
          /\ TtlHandles(active_ttls') \subseteq TtlHandles(active_ttls)
          /\ reverted' # reverted => MonitorReverted

\* C34: a pass of the monitor takes every entry whose deadline has passed
\* out of the TTL table; no step of the monitor puts an entry into the
\* table, whether the revert succeeds, fails or raises; _revert_action is
\* called for the head of the popped entries only, which then leaves them,
\* so that it runs at most once per table entry.
C34_ExpiredEntryRevertedOnce ==
    /\ [](Len(reverted) + Len(mon_expired) + Len(active_ttls)
              <= Cardinality(ScheduledCalls))
    /\ [][C34_Step]_vars

\* kubectl could not delete the policy of an expired isolation: the revert
\* failed, the monitor is back at its pass and the handle is out of the
\* table.
C34_Witness ==
    /\ mon_pc = "scan" /\ mon_expired = <<>>
    /\ \E j \in 1..Len(reverted) :
          /\ reverted[j].outcome = "failed"
          /\ reverted[j].handle \notin TtlHandles(active_ttls)

\* _revert_action was called for the handle of call k: the handle has left
\* SCHEDULED and its revert ended as done or failed, or raised.
RevertRan(k) ==
    \E j \in 1..Len(reverted) :
        reverted[j].handle = results[k].result.revert_handle

\* The revert of every scheduled handle whose deadline has passed has run.
AllDueRevertsRan ==
    \A k \in ScheduledCalls \cap Actuations :
        results[k].result.expires_at <= cat_now => RevertRan(k)

\* The monitor is in the sleep of one second that ends its iteration.
MonitorAsleep == mon_wake > cat_now

\* C35: while the process lives the monitor runs the revert of every
\* scheduled handle whose deadline has passed, also when the revert of
\* another handle fails or raises: from some point on, whenever the monitor
\* is not in its sleep, no scheduled handle past its deadline is left
\* without a call of its revert.
C35_GuaranteedAutoRevert == <>[](MonitorAsleep \/ AllDueRevertsRan)

-----------------------------------------------------------------------------
(* The frame of a failed execute *)

\* The call of execute of this step returned a failure result.
ExecuteFailed ==
    /\ ExecuteReturned
    /\ LastCall.result.raised = "none"
    /\ ~LastCall.result.success

C36_Step ==
    ExecuteFailed => /\ LastCall.result.revert_handle = NoHandle
                     /\ active_ttls' = active_ttls

\* C36: a call of execute that returns a failure result (unknown action,
\* ring above MAX_RING, missing or invalid parameter, primitive failed,
\* exception inside the primitive) carries no revert handle and leaves the
\* TTL table exactly as it was before the call.
C36_FailureLeavesTableAlone == [][C36_Step]_vars

-----------------------------------------------------------------------------
(* Exceptions in a worker *)

\* Worker w left _process_packet through an exception in this step: the
\* except clause of _process_loop logged it.
WorkerRaised(w) ==
    /\ wpc[w] # "idle"
    /\ wpc'[w] = "idle"
    /\ worker_errors' = worker_errors + 1

\* Some counter of Stats was incremented in this step.
SomeCounterIncremented == \E c \in DOMAIN stats : stats'[c] > stats[c]

C37_Step ==
    \A w \in Workers :
        WorkerRaised(w) =>
            /\ inflight' = inflight - 1
            /\ wentry'[w] = NoEntry
            /\ SomeCounterIncremented

\* C37: an exception raised while a worker processes a packet, such as the
\* KeyError of a key reloaded away between the lookup and the HMAC, is
\* caught and counted in a counter; the worker is back at the head of its
\* loop, ready for the next packet, and the in-flight count is back at the
\* value it had before the packet was taken.
C37_WorkerExceptionCounted == [][C37_Step]_vars

-----------------------------------------------------------------------------
(* The sequence number of a live sender *)

\* Every datagram the listener has received was received once: the
\* copies _send_with_dupes makes of a datagram are left aside.
EachReceivedOnce ==
    \A p \in BagToSet(recv_log) : CopiesIn(p, recv_log) = 1

-----------------------------------------------------------------------------
(* The scope of the already-elevated state *)

\* Instance i has decided an elevation for run_id, on either path.
ElevatedFor(i, run_id) ==
    \E e \in BagToSet(decision_log) : e.inst = i /\ e.run_id = run_id

C39_Step ==
    \A i \in Instances :
        Watched(i) =>
            (ReasonByPriority(NextMetrics(i), i) = "already_elevated"
                 => ElevatedFor(i, WatchRunId))

\* C39: the already-elevated state of an instance is scoped to the run:
\* the window of a run is answered already_elevated only when the instance
\* has elevated for that very run, so that an elevation for one run leaves
\* the instance free to elevate for another.
C39_ElevatedPerRun == [][C39_Step]_vars

-----------------------------------------------------------------------------
(* One TTL entry per actuation *)

\* The call of execute of this step succeeded and scheduled a revert.
ExecuteScheduled ==
    /\ ExecuteReturned
    /\ LastCall.result.success
    /\ LastCall.result.scheduled

C40_Step ==
    ExecuteScheduled =>
        /\ Len(active_ttls') = Len(active_ttls) + 1
        /\ \A k \in 1..Len(active_ttls) : active_ttls'[k] = active_ttls[k]

\* C40: every successful actuation with a positive TTL gets an entry of
\* its own in the TTL table: the call adds one entry and leaves the pending
\* entries of earlier actuations as they were, neither overwritten nor
\* postponed nor removed.
C40_DistinctEntries == [][C40_Step]_vars

=============================================================================
